---- MODULE Spec2Model ----
(***************************************************************************)
(* The windowed edit overlay engine of nmeditor: the CSV session hook      *)
(* (useCsvSession), the App component's window manager, patch overlay and  *)
(* undo/redo log, the row/column operation log (useRowColumnOps) and the   *)
(* selection hook (useSelection).  React state is the model's state; every *)
(* event handler is one atomic action, and an async handler is cut at each *)
(* await on the backend into one action per continuation.                  *)
(***************************************************************************)
EXTENDS Integers, Sequences, FiniteSets, TLC

(***************************************************************************)
(* Bounds of the model.                                                    *)
(***************************************************************************)
\* structural operations (rowOps and columnOps entries together) per session
MaxOps == 2
\* depth of the undo stack
MaxUndo == 2
\* sessions closed and opened
MaxGen == 2
\* window requests the backend has not answered yet
MaxFetches == 2
\* ranges of the selection
MaxRanges == 2
\* sort rules, and filter rules, the rule panel holds
MaxRules == 2

(***************************************************************************)
(* Program constants.                                                      *)
(***************************************************************************)
InitialWindowSize == 400
PrefetchMargin == 20
MinWindowSize == 200
MaxWindowSize == 20000
MinMaxRows == 50
MinBytesPerRow == 128
MinColumnCount == 3

(***************************************************************************)
(* Optional values: null is the empty tuple, a value v is <<v>>.           *)
(***************************************************************************)
Null == <<>>

Some(v) == <<v>>

Min(a, b) == IF a < b THEN a ELSE b

Max(a, b) == IF a > b THEN a ELSE b

clamp(value, lo, hi) == Min(Max(value, lo), hi)

EmptyMap == [k \in {} |-> ""]

(***************************************************************************)
(* Patch keys.  The code keys the overlay by the string `${row}:${col}`    *)
(* and recovers the pair with key.split(":").map(Number).  A string is     *)
(* modelled as the sequence of its characters.                             *)
(***************************************************************************)
DigitChar(d) ==
  CASE d = 0 -> "0" [] d = 1 -> "1" [] d = 2 -> "2" [] d = 3 -> "3"
    [] d = 4 -> "4" [] d = 5 -> "5" [] d = 6 -> "6" [] d = 7 -> "7"
    [] d = 8 -> "8" [] OTHER -> "9"

DigitValue(ch) ==
  CASE ch = "0" -> 0 [] ch = "1" -> 1 [] ch = "2" -> 2 [] ch = "3" -> 3
    [] ch = "4" -> 4 [] ch = "5" -> 5 [] ch = "6" -> 6 [] ch = "7" -> 7
    [] ch = "8" -> 8 [] OTHER -> 9

RECURSIVE NumberToString(_)
NumberToString(n) ==
  IF n < 10 THEN <<DigitChar(n)>>
  ELSE NumberToString(n \div 10) \o <<DigitChar(n % 10)>>

RECURSIVE StringToNumber(_)
StringToNumber(s) ==
  IF Len(s) = 0 THEN 0
  ELSE 10 * StringToNumber(SubSeq(s, 1, Len(s) - 1)) + DigitValue(s[Len(s)])

KeyOf(row, col) == NumberToString(row) \o <<":">> \o NumberToString(col)

ColonAt(key) == CHOOSE i \in 1..Len(key) : key[i] = ":"

KeyRow(key) == StringToNumber(SubSeq(key, 1, ColonAt(key) - 1))

KeyCol(key) == StringToNumber(SubSeq(key, ColonAt(key) + 1, Len(key)))

(***************************************************************************)
(* The backend (Stream Provider): what open_csv_session,                    *)
(* read_csv_rows_window and count_csv_rows answer for the files of the     *)
(* model.  File A has three rows of two columns, file B two rows of two    *)
(* columns; read with the semicolon delimiter every line is one cell.      *)
(* Files L, M, W and H have one column: L is 10000 rows of an empty cell,  *)
(* M 20400 rows of one character, W three rows of 100000 characters and H  *)
(* three rows of 3300000 characters.  File S has one column and 450 rows   *)
(* of one character: its second window is shorter than its first.  File T  *)
(* has one column and 450 rows, 400 of 1800000 characters and then 50 of   *)
(* 3300000: its rows get heavier towards its end.                          *)
(***************************************************************************)
Paths == {"A", "B"}

Delimiters == {",", ";"}

LongPaths == {"L", "M", "W", "H"}

FileHeaders(path, delim) ==
  IF path \in LongPaths \/ path \in {"S", "T"} THEN <<"c0">>
  ELSE IF delim = ","
  THEN (IF path = "A" THEN <<"h0", "h1">> ELSE <<"g0", "g1">>)
  ELSE (IF path = "A" THEN <<"h0,h1">> ELSE <<"g0,g1">>)

FileRows(path, delim) ==
  CASE path = "L" -> [i \in 1..10000 |-> <<"">>]
    [] path = "M" -> [i \in 1..20400 |-> <<"x">>]
    [] path = "W" -> [i \in 1..3 |-> <<"wide">>]
    [] path = "H" -> [i \in 1..3 |-> <<"huge">>]
    [] path = "S" -> [i \in 1..450 |-> <<"x">>]
    [] path = "T" ->
         [i \in 1..450 |-> IF i <= 400 THEN <<"big">> ELSE <<"huge">>]
    [] OTHER ->
         IF delim = ","
         THEN (IF path = "A"
               THEN << <<"p", "q">>, <<"a", "r">>, <<"s", "t">> >>
               ELSE << <<"u", "v">>, <<"w", "x">> >>)
         ELSE (IF path = "A"
               THEN << <<"p,q">>, <<"a,r">>, <<"s,t">> >>
               ELSE << <<"u,v">>, <<"w,x">> >>)

\* cell.length of the strings that occur in the model
StringLength(s) ==
  CASE s = "" -> 0
    [] s \in {"p,q", "a,r", "s,t", "u,v", "w,x"} -> 3
    [] s = "wide" -> 100000
    [] s = "big" -> 1800000
    [] s = "huge" -> 3300000
    [] OTHER -> 1

\* rows [start, start + limit) of the file, as read_csv_rows_window returns them
ReadWindow(path, delim, start, limit) ==
  LET all == FileRows(path, delim)
      hi == Min(start + limit, Len(all))
  IN [rows |-> IF start < hi THEN SubSeq(all, start + 1, hi) ELSE <<>>,
      start |-> start,
      eof |-> start + limit >= Len(all)]

(***************************************************************************)
(* State.                                                                  *)
(***************************************************************************)
VARIABLES
  \* useCsvSession
  sessionId, headers, rows, eof, activePath, delimiterApplied, preview,
  delimiter, loading,
  \* App
  fileMode, totalRows, windowStart, windowLoading, windowSize,
  patches, undoStack, redoStack, error, sortRules, filterRules,
  \* useRowColumnOps
  rowOps, columnOps,
  \* useSelection
  selectionRanges, selectionAnchor, selectionMode,
  \* handlers suspended at an await, and requests the backend has not answered
  openProc, applyProc, fetches, counts,
  \* history variables, read by the properties only
  gen, last, mark, undone, branched, prior, stamp, resident, snap

sessionVars ==
  <<sessionId, headers, rows, eof, activePath, delimiterApplied, preview,
    delimiter, loading>>

windowVars == <<totalRows, windowStart, windowLoading, windowSize>>

editVars == <<patches, undoStack, redoStack>>

opVars == <<rowOps, columnOps>>

selVars == <<selectionRanges, selectionAnchor, selectionMode>>

procVars == <<openProc, applyProc, fetches, counts>>

ruleVars == <<sortRules, filterRules>>

histVars == <<gen, mark, undone, branched, prior, stamp, resident, snap>>

vars ==
  <<sessionVars, fileMode, windowVars, editVars, error, ruleVars, opVars,
    selVars, procVars, histVars, last>>

IdleProc == [pc |-> "idle", path |-> "", delim |-> "", sid |-> Null, ws |-> 0]

Init ==
  /\ sessionId = Null
  /\ headers = <<>>
  /\ rows = <<>>
  /\ eof = FALSE
  /\ activePath = Null
  /\ delimiterApplied = Null
  /\ preview = Null
  /\ delimiter = ","
  /\ loading = FALSE
  /\ fileMode = "none"
  /\ totalRows = Null
  /\ windowStart = 0
  /\ windowLoading = FALSE
  /\ windowSize = InitialWindowSize
  /\ patches = EmptyMap
  /\ undoStack = <<>>
  /\ redoStack = <<>>
  /\ error = Null
  /\ sortRules = <<>>
  /\ filterRules = <<>>
  /\ rowOps = <<>>
  /\ columnOps = <<>>
  /\ selectionRanges = <<>>
  /\ selectionAnchor = Null
  /\ selectionMode = "cell"
  /\ openProc = IdleProc
  /\ applyProc = IdleProc
  /\ fetches = <<>>
  /\ counts = <<>>
  /\ gen = 0
  /\ last = "init"
  /\ mark = EmptyMap
  /\ undone = 0
  /\ branched = FALSE
  /\ prior = EmptyMap
  /\ stamp = 0
  /\ resident = FALSE
  /\ snap = Null

(***************************************************************************)
(* Derived values of a render.                                             *)
(***************************************************************************)
\* rows[localRow]?.[col] ?? ""
Cell(rs, localRow, col) ==
  IF /\ localRow >= 0 /\ localRow < Len(rs)
     /\ col >= 0 /\ col < Len(rs[localRow + 1])
  THEN rs[localRow + 1][col + 1]
  ELSE ""

\* the longest of rows lo..hi, by halves
RECURSIVE RowMaxOf(_, _, _)
RowMaxOf(rs, lo, hi) ==
  IF lo > hi THEN 0
  ELSE IF lo = hi THEN Len(rs[lo])
  ELSE LET mid == (lo + hi) \div 2
       IN Max(RowMaxOf(rs, lo, mid), RowMaxOf(rs, mid + 1, hi))

RowMax(rs) == RowMaxOf(rs, 1, Len(rs))

dataColumnCount == Max(Len(headers), RowMax(rows))

columnCount == Max(dataColumnCount, MinColumnCount)

\* a faulty test: it looks at the filter rules only
HasFilterOnly == Len(filterRules) > 0

hasSortFilter == Len(sortRules) > 0 \/ Len(filterRules) > 0

\* a faulty lookup: it tests residency before it looks at the overlay
GetCellValueResidentFirst(p, rs, ws, row, col) ==
  LET localRow == row - ws
  IN IF localRow < 0 \/ localRow >= Len(rs) THEN ""
     ELSE IF KeyOf(row, col) \in DOMAIN p THEN p[KeyOf(row, col)]
     ELSE Cell(rs, localRow, col)

GetCellValueIn(p, rs, ws, row, col) ==
  IF KeyOf(row, col) \in DOMAIN p
  THEN p[KeyOf(row, col)]
  ELSE LET localRow == row - ws
       IN IF localRow < 0 \/ localRow >= Len(rs) THEN ""
          ELSE Cell(rs, localRow, col)

getCellValue(row, col) == GetCellValueIn(patches, rows, windowStart, row, col)

isRowLoaded(row) == row >= windowStart /\ row < windowStart + Len(rows)

\* the columns GridView renders a cell for
GridCols == 0..((IF Len(headers) > 0 THEN Len(headers) ELSE MinColumnCount) - 1)

(***************************************************************************)
(* Sort and filter rules, and the view they give of the resident window.   *)
(***************************************************************************)
\* the characters of a cell value; a value that stands for a long cell is
\* one symbol
Chars(s) ==
  CASE s = "" -> <<>>
    [] s = "p,q" -> <<"p", ",", "q">>
    [] s = "a,r" -> <<"a", ",", "r">>
    [] s = "s,t" -> <<"s", ",", "t">>
    [] s = "u,v" -> <<"u", ",", "v">>
    [] s = "w,x" -> <<"w", ",", "x">>
    [] OTHER -> <<s>>

\* String.prototype.includes
Includes(s, value) ==
  LET cs == Chars(s)
      cv == Chars(value)
  IN \E i \in 0..(Len(cs) - Len(cv)) : SubSeq(cs, i + 1, i + Len(cv)) = cv

\* the collation order of the characters the files and the edits use, with
\* sensitivity "base": a letter and its capital are one key
Collation ==
  <<",", "a", "b", "n", "p", "q", "r", "s", "t", "u", "v", "w", "x",
    "wide", "big", "huge">>

CollationKey(c) ==
  LET base == IF c = "A" THEN "a" ELSE IF c = "B" THEN "b" ELSE c
  IN IF \E k \in 1..Len(Collation) : Collation[k] = base
     THEN CHOOSE k \in 1..Len(Collation) : Collation[k] = base
     ELSE Len(Collation) + 1

RECURSIVE CompareChars(_, _)
CompareChars(x, y) ==
  IF Len(x) = 0 /\ Len(y) = 0 THEN 0
  ELSE IF Len(x) = 0 THEN -1
  ELSE IF Len(y) = 0 THEN 1
  ELSE IF CollationKey(Head(x)) < CollationKey(Head(y)) THEN -1
  ELSE IF CollationKey(Head(x)) > CollationKey(Head(y)) THEN 1
  ELSE CompareChars(Tail(x), Tail(y))

\* String.prototype.localeCompare with { numeric: true, sensitivity: "base" }
localeCompare(a, b) == CompareChars(Chars(a), Chars(b))

\* Number.parseInt(column, 10): Null stands for NaN
ParseInt(column) ==
  CASE column = "0" -> Some(0)
    [] column = "1" -> Some(1)
    [] column = "2" -> Some(2)
    [] column = "7" -> Some(7)
    [] OTHER -> Null

\* the predicate of the filter callback
PassesFilters(rowIndex) ==
  \A k \in 1..Len(filterRules) :
    LET rule == filterRules[k]
        colIndex == ParseInt(rule.column)
    IN IF colIndex = Null THEN TRUE
       ELSE Includes(getCellValue(rowIndex, colIndex[1]), rule.value)

\* the comparator of the sort callback, from rule k on
RECURSIVE CompareFrom(_, _, _)
CompareFrom(a, b, k) ==
  IF k > Len(sortRules) THEN 0
  ELSE LET rule == sortRules[k]
           colIndex == ParseInt(rule.column)
       IN IF colIndex = Null THEN CompareFrom(a, b, k + 1)
          ELSE LET order == localeCompare(getCellValue(a, colIndex[1]),
                                          getCellValue(b, colIndex[1]))
               IN IF order # 0
                  THEN IF rule.direction = "asc" THEN order ELSE 0 - order
                  ELSE CompareFrom(a, b, k + 1)

compareRows(a, b) == CompareFrom(a, b, 1)

\* how many rows of the sorted run go in front of row x: the rows below x,
\* and with ties the rows that tie with x, found by bisection of lo..hi
RECURSIVE RunPrefix(_, _, _, _, _)
RunPrefix(run, x, ties, lo, hi) ==
  IF lo > hi THEN lo - 1
  ELSE LET mid == (lo + hi) \div 2
           order == compareRows(run[mid], x)
       IN IF order < 0 \/ (ties /\ order = 0)
          THEN RunPrefix(run, x, ties, mid + 1, hi)
          ELSE RunPrefix(run, x, ties, lo, mid - 1)

\* the last index of lo..hi whose position is at most k, lo - 1 if none
RECURSIVE LastAtMost(_, _, _, _)
LastAtMost(pos, k, lo, hi) ==
  IF lo > hi THEN lo - 1
  ELSE LET mid == (lo + hi) \div 2
       IN IF pos[mid] <= k
          THEN LastAtMost(pos, k, mid + 1, hi)
          ELSE LastAtMost(pos, k, lo, mid - 1)

\* a faulty merge: of two rows that tie the one of the right run goes first
MergeRightFirst(left, right) ==
  LET n == Len(left)
      m == Len(right)
      Place(posLeft) ==
        [k \in 1..(n + m) |->
          LET i == LastAtMost(posLeft, k, 1, n)
          IN IF i > 0 /\ posLeft[i] = k THEN left[i] ELSE right[k - i]]
  IN CHOOSE merged \in
       {Place(pos) : pos \in
          {[i \in 1..n |-> i + RunPrefix(right, left[i], TRUE, 1, m)]}} : TRUE

\* the merge of two sorted runs: of two rows that tie the one of the left
\* run goes first
Merge(left, right) ==
  LET n == Len(left)
      m == Len(right)
      Place(posLeft) ==
        [k \in 1..(n + m) |->
          LET i == LastAtMost(posLeft, k, 1, n)
          IN IF i > 0 /\ posLeft[i] = k THEN left[i] ELSE right[k - i]]
  IN CHOOSE merged \in
       {Place(pos) : pos \in
          {[i \in 1..n |-> i + RunPrefix(right, left[i], FALSE, 1, m)]}} : TRUE

\* Array.prototype.sort with the comparator, a stable merge sort, of the
\* elements lo..hi
RECURSIVE SortRange(_, _, _)
SortRange(seq, lo, hi) ==
  IF lo > hi THEN <<>>
  ELSE IF lo = hi THEN <<seq[lo]>>
  ELSE LET mid == (lo + hi) \div 2
       IN CHOOSE sorted \in
            {Merge(h[1], h[2]) : h \in
               {<<SortRange(seq, lo, mid), SortRange(seq, mid + 1, hi)>>}} :
            TRUE

visibleRowIndices ==
  LET indices == [idx \in 1..Len(rows) |-> windowStart + idx - 1]
      filtered == SelectSeq(indices, PassesFilters)
  IN IF Len(sortRules) = 0 THEN filtered
     ELSE CHOOSE sorted \in
            {SortRange(kept, 1, Len(kept)) : kept \in {filtered}} : TRUE

\* a faulty lookup: the virtual index is the logical row whatever the rules
GetRowIndexIgnoresRules(virtualIndex) == Some(virtualIndex)

\* the logical row of a virtual index; Null is the code's null
getRowIndex(virtualIndex) ==
  IF hasSortFilter
  THEN IF virtualIndex >= 0 /\ virtualIndex < Len(visibleRowIndices)
       THEN Some(visibleRowIndices[virtualIndex + 1])
       ELSE Null
  ELSE Some(virtualIndex)

(***************************************************************************)
(* Patch overlay and undo/redo log.                                        *)
(***************************************************************************)
applyPatchValue(p, key, value) ==
  IF value = Null
  THEN [k \in DOMAIN p \ {key} |-> p[k]]
  ELSE [k \in DOMAIN p \cup {key} |-> IF k = key THEN value[1] ELSE p[k]]

\* the PatchOp applyPatch records for a write that changes the cell
PatchOpFor(key, hasPatch, baseValue, value) ==
  [key |-> key,
   prev |-> IF hasPatch THEN Some(patches[key]) ELSE Some(baseValue),
   next |-> IF value = baseValue THEN Null ELSE Some(value)]

\* a faulty residency test: the row just past the window passes it
ReturnsEarlyPastEnd(row, col, value) ==
  LET localRow == row - windowStart
      key == KeyOf(row, col)
      baseValue == Cell(rows, localRow, col)
      currentValue == IF key \in DOMAIN patches THEN patches[key] ELSE baseValue
  IN \/ localRow < 0 \/ localRow > Len(rows)
     \/ value = currentValue

\* whether applyPatch(row, col, value) returns before it writes
applyPatchReturnsEarly(row, col, value) ==
  LET localRow == row - windowStart
      key == KeyOf(row, col)
      baseValue == Cell(rows, localRow, col)
      currentValue == IF key \in DOMAIN patches THEN patches[key] ELSE baseValue
  IN \/ localRow < 0 \/ localRow >= Len(rows)
     \/ value = currentValue

\* a faulty write: it keeps the redo stack
ApplyPatchKeepsRedo(row, col, value) ==
  LET localRow == row - windowStart
      key == KeyOf(row, col)
      baseValue == Cell(rows, localRow, col)
      op == PatchOpFor(key, key \in DOMAIN patches, baseValue, value)
  IN IF applyPatchReturnsEarly(row, col, value)
     THEN [patches |-> patches, undoStack |-> undoStack,
           redoStack |-> redoStack]
     ELSE [patches |-> applyPatchValue(patches, key, op.next),
           undoStack |-> Append(undoStack, op),
           redoStack |-> redoStack]

\* the overlay and the two stacks as applyPatch(row, col, value) leaves them
applyPatchResult(row, col, value) ==
  LET localRow == row - windowStart
      key == KeyOf(row, col)
      baseValue == Cell(rows, localRow, col)
      op == PatchOpFor(key, key \in DOMAIN patches, baseValue, value)
  IN IF applyPatchReturnsEarly(row, col, value)
     THEN [patches |-> patches, undoStack |-> undoStack,
           redoStack |-> redoStack]
     ELSE [patches |-> applyPatchValue(patches, key, op.next),
           undoStack |-> Append(undoStack, op),
           redoStack |-> <<>>]

\* commitEditing on a grid cell: applyPatch(row, col, value)
applyPatch(row, col, value) ==
  LET result == applyPatchResult(row, col, value)
  IN /\ fileMode # "text"
     /\ col \in GridCols
     /\ IF applyPatchReturnsEarly(row, col, value)
        THEN UNCHANGED <<editVars, mark, undone, branched, prior, stamp, last,
                         snap>>
        ELSE /\ Len(undoStack) < MaxUndo
             /\ patches' = result.patches
             /\ undoStack' = result.undoStack
             /\ redoStack' = result.redoStack
             /\ mark' = patches'
             /\ undone' = 0
             /\ branched' = (branched \/ Len(redoStack) > 0)
             /\ prior' = patches
             /\ stamp' = gen
             /\ snap' = IF snap # Null /\ snap[1].index = col THEN snap ELSE Null
             /\ last' = "set"
     /\ UNCHANGED <<sessionVars, fileMode, windowVars, error, ruleVars, opVars,
                    selVars, procVars, gen, resident>>

UndoPatches(p, op) == applyPatchValue(p, op.key, op.prev)

\* a faulty redo: it writes the value undo restores
RedoAppliesPrev(p, op) == applyPatchValue(p, op.key, op.prev)

RedoPatches(p, op) == applyPatchValue(p, op.key, op.next)

undo ==
  /\ fileMode # "text"
  /\ Len(undoStack) > 0
  /\ LET op == undoStack[Len(undoStack)]
     IN /\ patches' = UndoPatches(patches, op)
        /\ redoStack' = Append(redoStack, op)
        /\ undoStack' = SubSeq(undoStack, 1, Len(undoStack) - 1)
  /\ undone' = Len(redoStack')
  /\ last' = "undo"
  /\ UNCHANGED <<sessionVars, fileMode, windowVars, error, ruleVars, opVars,
                 selVars, procVars, gen, mark, branched, prior, stamp, snap,
                 resident>>

redo ==
  /\ fileMode # "text"
  /\ Len(redoStack) > 0
  /\ LET op == redoStack[Len(redoStack)]
     IN /\ patches' = RedoPatches(patches, op)
        /\ undoStack' = Append(undoStack, op)
        /\ redoStack' = SubSeq(redoStack, 1, Len(redoStack) - 1)
  /\ last' = "redo"
  /\ UNCHANGED <<sessionVars, fileMode, windowVars, error, ruleVars, opVars,
                 selVars, procVars, histVars>>

(***************************************************************************)
(* Window manager.                                                         *)
(***************************************************************************)
\* the memory budget in MiB (2 GiB) and the share of it a window may take
MemoryBudgetMiB == 2048

SafeTenths == 6

\* 2^k * num = q * den + r, by doubling
RECURSIVE ScaledDiv(_, _, _)
ScaledDiv(num, den, k) ==
  IF k = 0 THEN [q |-> num \div den, r |-> num % den]
  ELSE LET h == ScaledDiv(num, den, k - 1)
       IN IF h.r >= den - h.r
          THEN [q |-> 2 * h.q + 1, r |-> h.r - (den - h.r)]
          ELSE [q |-> 2 * h.q, r |-> 2 * h.r]

RECURSIVE RowBytes(_)
RowBytes(row) ==
  IF Len(row) = 0 THEN 0 ELSE StringLength(Head(row)) * 2 + RowBytes(Tail(row))

\* the sum of rowBytes over rows lo..hi, by halves
RECURSIVE BytesOfRows(_, _, _)
BytesOfRows(sampleRows, lo, hi) ==
  IF lo > hi THEN 0
  ELSE IF lo = hi THEN RowBytes(sampleRows[lo])
  ELSE LET mid == (lo + hi) \div 2
       IN BytesOfRows(sampleRows, lo, mid) + BytesOfRows(sampleRows, mid + 1, hi)

TotalBytes(sampleRows) == BytesOfRows(sampleRows, 1, Len(sampleRows))

\* a faulty estimate: the upper clamp is missing
EstimateWithoutCeiling(sampleRows, current) ==
  LET n == Len(sampleRows)
      total == TotalBytes(sampleRows)
      num == IF total <= MinBytesPerRow * n THEN MinBytesPerRow ELSE total
      den == IF total <= MinBytesPerRow * n THEN 1 ELSE n
      quotient == ScaledDiv(MemoryBudgetMiB * SafeTenths * den, num, 20).q \div 10
      maxRows == Max(MinMaxRows, quotient)
  IN IF n = 0 \/ total = 0 THEN current
     ELSE Max(maxRows, MinWindowSize)

\* the window size estimateWindowSize leaves, given the size before it
estimateWindowSize(sampleRows, current) ==
  LET n == Len(sampleRows)
      total == TotalBytes(sampleRows)
      \* Math.max(bytesPerRow, 128) as the fraction num / den
      num == IF total <= MinBytesPerRow * n THEN MinBytesPerRow ELSE total
      den == IF total <= MinBytesPerRow * n THEN 1 ELSE n
      \* Math.floor(MEMORY_BUDGET_BYTES * 0.6 / (num / den))
      quotient == ScaledDiv(MemoryBudgetMiB * SafeTenths * den, num, 20).q \div 10
      maxRows == Max(MinMaxRows, quotient)
  IN IF n = 0 \/ total = 0 THEN current
     ELSE Min(Max(maxRows, MinWindowSize), MaxWindowSize)

\* path and delimiter loadWindow resolves when it is given no override
WindowPath == IF preview # Null THEN Some(preview[1].path) ELSE activePath

WindowDelimiter ==
  IF delimiterApplied # Null THEN delimiterApplied[1]
  ELSE IF preview # Null THEN preview[1].delimiter
  ELSE delimiter

\* view is the viewport of the scroll event behind the request, kept for the
\* properties only
Request(path, delim, start, limit, owner) ==
  [path |-> path, delim |-> delim, start |-> start, limit |-> limit,
   owner |-> owner, gen |-> gen, loading |-> windowLoading, view |-> Null]

\* loadWindow(start) up to its await: the request is sent whatever windowLoading is
loadWindowFor(start, owner, view) ==
  IF WindowPath = Null
  THEN UNCHANGED <<windowLoading, fetches>>
  ELSE /\ Len(fetches) < MaxFetches
       /\ windowLoading' = TRUE
       /\ fetches' = Append(fetches,
            [Request(WindowPath[1], WindowDelimiter, start, windowSize, owner)
               EXCEPT !.view = view])

loadWindow(start, owner) == loadWindowFor(start, owner, Null)

totalRowCount ==
  IF hasSortFilter THEN Len(visibleRowIndices)
  ELSE IF totalRows # Null THEN totalRows[1] ELSE Len(rows)

loadNextWindow ==
  LET nextStart == windowStart + Len(rows)
  IN /\ fileMode = "csv"
     /\ nextStart < totalRowCount
     /\ loadWindow(nextStart, "next")
     /\ last' = "loadNextWindow"
     /\ UNCHANGED <<sessionVars, fileMode, totalRows, windowStart, windowSize,
                    editVars, error, ruleVars, opVars, selVars, openProc,
                    applyProc, counts, histVars>>

\* a faulty lead: the new window ends where the viewport ends
ForwardLeadWholeWindow == windowSize

\* floor(windowSize * 0.7) and floor(windowSize * 0.3)
ForwardLead == (windowSize * 7) \div 10

BackwardLead == (windowSize * 3) \div 10

\* the test of the forward branch of rowVirtualizer.onChange
onChangeForward(last_) ==
  /\ last_ >= windowStart + Len(rows) - PrefetchMargin
  /\ windowStart < Max(totalRowCount - windowSize, 0)

\* the start of the fetch rowVirtualizer.onChange issues for the virtual
\* items first..last, Null when it issues none
onChangeStart(first, last_) ==
  LET maxStart == Max(totalRowCount - windowSize, 0)
      forward == onChangeForward(last_)
      backward == first <= windowStart + PrefetchMargin /\ windowStart > 0
      nextStart == IF forward
                   THEN Min(Max(last_ - ForwardLead, 0), maxStart)
                   ELSE Max(Min(first - BackwardLead, maxStart), 0)
  IN IF fileMode # "csv" \/ hasSortFilter \/ windowLoading THEN Null
     ELSE IF (forward \/ backward) /\ nextStart # windowStart
     THEN Some(nextStart)
     ELSE Null

\* rowVirtualizer.onChange with virtual items first..last
onChange(first, last_) ==
  /\ fileMode = "csv"
  /\ first <= last_
  \* with a rule active the handler returns before it reads the viewport
  /\ IF hasSortFilter THEN TRUE ELSE last_ < totalRowCount
  /\ IF onChangeStart(first, last_) # Null
     THEN /\ loadWindowFor(onChangeStart(first, last_)[1], "scroll",
                           Some([first |-> first, last |-> last_,
                                 forward |-> onChangeForward(last_)]))
          /\ last' = "scrollFetch"
     ELSE UNCHANGED <<windowLoading, fetches, last>>
  /\ UNCHANGED <<sessionVars, fileMode, totalRows, windowStart, windowSize,
                 editVars, error, ruleVars, opVars, selVars, openProc,
                 applyProc, counts, histVars>>

RemoveAt(seq, i) == SubSeq(seq, 1, i - 1) \o SubSeq(seq, i + 1, Len(seq))

\* what the handler that awaited loadWindow does next: refreshTotalRows, and
\* handleOpen releases openDialogActiveRef
AfterWindow(req) ==
  /\ counts' = IF req.owner \in {"open", "apply"}
               THEN Append(counts, [path |-> req.path, delim |-> req.delim])
               ELSE counts
  /\ openProc' = IF req.owner = "open" THEN IdleProc ELSE openProc
  /\ UNCHANGED applyProc

\* a faulty continuation: it appends the answer to the resident rows, as
\* loadMore of useCsvSession does
WindowLoadedAppends(i) ==
  /\ i \in 1..Len(fetches)
  /\ LET req == fetches[i]
         slice == ReadWindow(req.path, req.delim, req.start, req.limit)
     IN /\ rows' = rows \o slice.rows
        /\ windowStart' = slice.start
        /\ eof' = slice.eof
        /\ windowSize' = estimateWindowSize(slice.rows, windowSize)
        /\ windowLoading' = FALSE
        /\ fetches' = RemoveAt(fetches, i)
        /\ AfterWindow(req)
        /\ resident' = FALSE
        /\ last' = "windowLoaded"
  /\ UNCHANGED <<sessionId, headers, activePath, delimiterApplied, preview,
                 delimiter, loading, fileMode, totalRows, editVars, error,
                 ruleVars, opVars, selVars, gen,
                 mark, undone, branched, prior, stamp, snap>>

\* read_csv_rows_window answers request i: the continuation of loadWindow
WindowLoaded(i) ==
  /\ i \in 1..Len(fetches)
  /\ LET req == fetches[i]
         slice == ReadWindow(req.path, req.delim, req.start, req.limit)
     IN /\ rows' = slice.rows
        /\ windowStart' = slice.start
        /\ eof' = slice.eof
        /\ windowSize' = estimateWindowSize(slice.rows, windowSize)
        /\ windowLoading' = FALSE
        /\ fetches' = RemoveAt(fetches, i)
        /\ AfterWindow(req)
        /\ resident' = (/\ req.gen = gen /\ slice.start = 0 /\ slice.eof
                        /\ Len(rowOps) = 0 /\ Len(columnOps) = 0
                        /\ patches = EmptyMap)
        /\ last' = "windowLoaded"
  /\ UNCHANGED <<sessionId, headers, activePath, delimiterApplied, preview,
                 delimiter, loading, fileMode, totalRows, editVars, error,
                 ruleVars, opVars, selVars, gen,
                 mark, undone, branched, prior, stamp, snap>>

\* read_csv_rows_window fails for request i
WindowFailed(i) ==
  /\ i \in 1..Len(fetches)
  /\ error' = Some("read failed")
  /\ windowLoading' = FALSE
  /\ fetches' = RemoveAt(fetches, i)
  /\ AfterWindow(fetches[i])
  /\ last' = "windowFailed"
  /\ UNCHANGED <<sessionVars, fileMode, totalRows, windowStart, windowSize,
                 editVars, ruleVars, opVars, selVars, histVars>>

\* count_csv_rows answers: the continuation of refreshTotalRows
RowsCounted(j) ==
  /\ j \in 1..Len(counts)
  /\ totalRows' = Some(Len(FileRows(counts[j].path, counts[j].delim)))
  /\ counts' = RemoveAt(counts, j)
  /\ last' = "rowsCounted"
  /\ UNCHANGED <<sessionVars, fileMode, windowStart, windowLoading, windowSize,
                 editVars, error, ruleVars, opVars, selVars, openProc,
                 applyProc, fetches, histVars>>

CountFailed(j) ==
  /\ j \in 1..Len(counts)
  /\ error' = Some("count failed")
  /\ totalRows' = Null
  /\ counts' = RemoveAt(counts, j)
  /\ last' = "countFailed"
  /\ UNCHANGED <<sessionVars, fileMode, windowStart, windowLoading, windowSize,
                 editVars, ruleVars, opVars, selVars, openProc, applyProc,
                 fetches, histVars>>

(***************************************************************************)
(* Session handlers.  A suspended handler keeps the values its closure     *)
(* captured when it was called: sessionId (sid), delimiter (delim) and     *)
(* windowSize (ws).                                                        *)
(***************************************************************************)
Captured(pc, path) ==
  [pc |-> pc, path |-> path, delim |-> delimiter, sid |-> sessionId,
   ws |-> windowSize]

\* the state closeSession sets once its close_csv_session call is over
CloseSets ==
  /\ sessionId' = Null
  /\ rows' = <<>>
  /\ headers' = <<>>
  /\ eof' = FALSE
  /\ activePath' = Null
  /\ delimiterApplied' = Null
  /\ preview' = Null

resetSessionState ==
  /\ patches' = EmptyMap
  /\ undoStack' = <<>>
  /\ redoStack' = <<>>
  /\ sortRules' = <<>>
  /\ filterRules' = <<>>
  /\ rowOps' = <<>>
  /\ columnOps' = <<>>
  /\ selectionRanges' = <<>>
  /\ selectionAnchor' = Null
  /\ selectionMode' = "cell"
  /\ totalRows' = Null
  /\ windowStart' = 0
  /\ snap' = Null
  /\ windowSize' = InitialWindowSize
  /\ mark' = EmptyMap
  /\ undone' = 0
  /\ branched' = FALSE

\* menu event file_open: handleOpen up to its await on the file dialog
handleOpen ==
  /\ openProc.pc = "idle"
  /\ gen < MaxGen
  /\ openProc' = Captured("dialog", "")
  /\ last' = "handleOpen"
  /\ UNCHANGED <<sessionVars, fileMode, windowVars, editVars, error, ruleVars,
                 opVars, selVars, applyProc, fetches, counts, histVars>>

\* the dialog is dismissed
DialogCancelled ==
  /\ openProc.pc = "dialog"
  /\ openProc' = IdleProc
  /\ last' = "dialogCancelled"
  /\ UNCHANGED <<sessionVars, fileMode, windowVars, editVars, error, ruleVars,
                 opVars, selVars, applyProc, fetches, counts, histVars>>

\* a .csv path is chosen: closeSession, then openCsvPath up to its first await
CsvChosen(path) ==
  /\ openProc.pc = "dialog"
  /\ IF openProc.sid # Null
     THEN /\ openProc' = [openProc EXCEPT !.pc = "closing", !.path = path]
          /\ UNCHANGED <<sessionVars, error, gen, resident>>
     ELSE /\ CloseSets
          /\ error' = Null
          /\ loading' = TRUE
          /\ resident' = FALSE
          /\ openProc' = [openProc EXCEPT !.pc = "opening", !.path = path]
          /\ UNCHANGED <<delimiter, gen>>
  /\ last' = "csvChosen"
  /\ UNCHANGED <<fileMode, windowVars, editVars, ruleVars, opVars, selVars,
                 applyProc, fetches, counts,
                 mark, undone, branched, prior, stamp, snap>>

\* close_csv_session returns to closeSession (its failure is caught, and the
\* error it sets is cleared by openCsvPath at once)
SessionClosed ==
  /\ openProc.pc = "closing"
  /\ CloseSets
  /\ error' = Null
  /\ loading' = TRUE
  /\ gen' = gen + 1
  /\ resident' = FALSE
  /\ openProc' = [openProc EXCEPT !.pc = "opening"]
  /\ last' = "sessionClosed"
  /\ UNCHANGED <<delimiter, fileMode, windowVars, editVars, ruleVars, opVars,
                 selVars, applyProc, fetches, counts,
                 mark, undone, branched, prior, stamp, snap>>

\* open_csv_session returns info to openCsvPath; handleOpen goes on with
\* setFileMode, resetSessionState and loadWindow(0, path, info.delimiter)
SessionOpened ==
  /\ openProc.pc = "opening"
  /\ Len(fetches) < MaxFetches
  /\ sessionId' = Some(1)
  /\ headers' = FileHeaders(openProc.path, openProc.delim)
  /\ rows' = <<>>
  /\ eof' = FALSE
  /\ activePath' = Some(openProc.path)
  /\ delimiterApplied' = Some(openProc.delim)
  /\ preview' = Some([path |-> openProc.path, delimiter |-> openProc.delim])
  /\ loading' = FALSE
  /\ fileMode' = "csv"
  /\ resetSessionState
  /\ gen' = gen + 1
  /\ resident' = FALSE
  /\ windowLoading' = TRUE
  /\ fetches' = Append(fetches,
       [path |-> openProc.path, delim |-> openProc.delim, start |-> 0,
        limit |-> openProc.ws, owner |-> "open", gen |-> gen + 1,
        loading |-> windowLoading])
  /\ openProc' = [openProc EXCEPT !.pc = "loading"]
  /\ last' = "sessionOpened"
  /\ UNCHANGED <<delimiter, error, applyProc, counts, prior, stamp>>

\* open_csv_session fails: openCsvPath returns null and handleOpen returns
OpenFailed ==
  /\ openProc.pc = "opening"
  /\ error' = Some("open failed")
  /\ loading' = FALSE
  /\ openProc' = IdleProc
  /\ last' = "openFailed"
  /\ UNCHANGED <<sessionId, headers, rows, eof, activePath, delimiterApplied,
                 preview, delimiter, fileMode, windowVars, editVars, ruleVars,
                 opVars, selVars, applyProc, fetches, counts, histVars>>

\* the delimiter select of the quick bar
setDelimiter(d) ==
  /\ fileMode # "text"
  /\ ~loading
  /\ d # delimiter
  /\ delimiter' = d
  /\ last' = "setDelimiter"
  /\ UNCHANGED <<sessionId, headers, rows, eof, activePath, delimiterApplied,
                 preview, loading, fileMode, windowVars, editVars, error,
                 ruleVars, opVars, selVars, procVars, histVars>>

\* the Apply delimiter button: handleApplyDelimiter and applyDelimiter up to
\* the await on the backend (one suspended call at a time is explored)
handleApplyDelimiter ==
  /\ fileMode = "csv"
  /\ applyProc.pc = "idle"
  /\ ~loading /\ preview # Null /\ delimiterApplied # Some(delimiter)
  /\ activePath # Null
  /\ gen < MaxGen
  /\ error' = Null
  /\ loading' = TRUE
  /\ applyProc' = Captured("opening", activePath[1])
  /\ last' = "handleApplyDelimiter"
  /\ UNCHANGED <<sessionId, headers, rows, eof, activePath, delimiterApplied,
                 preview, delimiter, fileMode, windowVars, editVars, ruleVars,
                 opVars, selVars, openProc, fetches, counts, histVars>>

\* open_csv_session returns info to applyDelimiter; handleApplyDelimiter goes
\* on with resetSessionState and loadWindow(0, info.path, info.delimiter)
DelimiterApplied ==
  /\ applyProc.pc = "opening"
  /\ Len(fetches) < MaxFetches
  /\ sessionId' = Some(1)
  /\ headers' = FileHeaders(applyProc.path, applyProc.delim)
  /\ rows' = <<>>
  /\ eof' = FALSE
  /\ delimiterApplied' = Some(applyProc.delim)
  /\ preview' = Some([path |-> applyProc.path, delimiter |-> applyProc.delim])
  /\ loading' = FALSE
  /\ resetSessionState
  /\ gen' = gen + 1
  /\ resident' = FALSE
  /\ windowLoading' = TRUE
  /\ fetches' = Append(fetches,
       [path |-> applyProc.path, delim |-> applyProc.delim, start |-> 0,
        limit |-> applyProc.ws, owner |-> "apply", gen |-> gen + 1,
        loading |-> windowLoading])
  /\ applyProc' = IdleProc
  /\ last' = "delimiterApplied"
  /\ UNCHANGED <<activePath, delimiter, fileMode, error, openProc, counts,
                 prior, stamp>>

ApplyFailed ==
  /\ applyProc.pc = "opening"
  /\ error' = Some("open failed")
  /\ loading' = FALSE
  /\ applyProc' = IdleProc
  /\ last' = "applyFailed"
  /\ UNCHANGED <<sessionId, headers, rows, eof, activePath, delimiterApplied,
                 preview, delimiter, fileMode, windowVars, editVars, ruleVars,
                 opVars, selVars, openProc, fetches, counts, histVars>>

\* a path that is no .csv is chosen: resetSessionState, closeSession, then
\* openText up to its await
TextChosen ==
  /\ openProc.pc = "dialog"
  /\ resetSessionState
  /\ resident' = FALSE
  /\ IF openProc.sid # Null
     THEN /\ openProc' = [openProc EXCEPT !.pc = "textClosing", !.path = "T"]
          /\ UNCHANGED <<sessionVars, error, gen>>
     ELSE /\ CloseSets
          /\ error' = Null
          /\ openProc' = [openProc EXCEPT !.pc = "textOpening", !.path = "T"]
          /\ UNCHANGED <<delimiter, loading, gen>>
  /\ last' = "textChosen"
  /\ UNCHANGED <<fileMode, windowLoading, applyProc, fetches, counts, prior, stamp>>

TextSessionClosed ==
  /\ openProc.pc = "textClosing"
  /\ CloseSets
  /\ error' = Null
  /\ gen' = gen + 1
  /\ resident' = FALSE
  /\ openProc' = [openProc EXCEPT !.pc = "textOpening"]
  /\ last' = "textSessionClosed"
  /\ UNCHANGED <<delimiter, loading, fileMode, windowVars, editVars, ruleVars,
                 opVars, selVars, applyProc, fetches, counts,
                 mark, undone, branched, prior, stamp, snap>>

\* readTextFile returns to openText: handleOpen sets the text mode
TextOpened ==
  /\ openProc.pc = "textOpening"
  /\ fileMode' = "text"
  /\ openProc' = IdleProc
  /\ last' = "textOpened"
  /\ UNCHANGED <<sessionVars, windowVars, editVars, error, ruleVars, opVars,
                 selVars, applyProc, fetches, counts, histVars>>

TextFailed ==
  /\ openProc.pc = "textOpening"
  /\ error' = Some("read failed")
  /\ openProc' = IdleProc
  /\ last' = "textFailed"
  /\ UNCHANGED <<sessionVars, fileMode, windowVars, editVars, ruleVars, opVars,
                 selVars, applyProc, fetches, counts, histVars>>

(***************************************************************************)
(* Row and column operations (useRowColumnOps).                            *)
(***************************************************************************)
\* Array.prototype.splice(index, 0, x)
InsertAt(seq, index, x) ==
  LET i == Min(index, Len(seq))
  IN SubSeq(seq, 1, i) \o <<x>> \o SubSeq(seq, i + 1, Len(seq))

\* Array.prototype.filter((_, idx) => idx !== index)
WithoutIndex(seq, index) ==
  IF index >= Len(seq) THEN seq
  ELSE SubSeq(seq, 1, index) \o SubSeq(seq, index + 2, Len(seq))

\* the overlay rebuilt: the entry of each key k of to is written under to[k]
Rekey(p, to) ==
  [k2 \in {to[k] : k \in DOMAIN to} |->
     p[CHOOSE k \in DOMAIN to : to[k] = k2]]

\* a faulty row-insert shift: the entries of the row at index stay behind
RowInsertShiftsAbove(p, index) ==
  Rekey(p, [k \in DOMAIN p |->
    KeyOf(IF KeyRow(k) > index THEN KeyRow(k) + 1 ELSE KeyRow(k), KeyCol(k))])

shiftPatchesForRowInsert(p, index) ==
  Rekey(p, [k \in DOMAIN p |->
    KeyOf(IF KeyRow(k) >= index THEN KeyRow(k) + 1 ELSE KeyRow(k), KeyCol(k))])

\* a faulty row-delete shift: the entries of the deleted row are kept
RowDeleteKeepsRow(p, index) ==
  Rekey(p, [k \in DOMAIN p |->
    KeyOf(IF KeyRow(k) > index THEN KeyRow(k) - 1 ELSE KeyRow(k), KeyCol(k))])

shiftPatchesForRowDelete(p, index) ==
  Rekey(p, [k \in {k1 \in DOMAIN p : KeyRow(k1) # index} |->
    KeyOf(IF KeyRow(k) > index THEN KeyRow(k) - 1 ELSE KeyRow(k), KeyCol(k))])

\* a faulty column-insert shift: the entries of the column at index stay behind
ColInsertShiftsAbove(p, index) ==
  Rekey(p, [k \in DOMAIN p |->
    KeyOf(KeyRow(k), IF KeyCol(k) > index THEN KeyCol(k) + 1 ELSE KeyCol(k))])

shiftPatchesForColInsert(p, index) ==
  Rekey(p, [k \in DOMAIN p |->
    KeyOf(KeyRow(k), IF KeyCol(k) >= index THEN KeyCol(k) + 1 ELSE KeyCol(k))])

\* a faulty column-delete shift: the entries right of the column stay
ColDeleteLeavesAbove(p, index) ==
  Rekey(p, [k \in {k1 \in DOMAIN p : KeyCol(k1) # index} |-> k])

shiftPatchesForColDelete(p, index) ==
  Rekey(p, [k \in {k1 \in DOMAIN p : KeyCol(k1) # index} |->
    KeyOf(KeyRow(k), IF KeyCol(k) > index THEN KeyCol(k) - 1 ELSE KeyCol(k))])

\* an index input is null when it does not parse to a number >= 0
parseRowIndex(input) == input

parseColumnIndex(input, allowEnd) ==
  IF input = Null THEN Null
  ELSE IF allowEnd /\ input[1] > Len(headers) THEN Null
  ELSE IF ~allowEnd /\ input[1] >= Len(headers) THEN Null
  ELSE input

getActiveRange ==
  IF Len(selectionRanges) > 0 THEN Some(selectionRanges[Len(selectionRanges)])
  ELSE Null

resolveRowTarget(input, allowEnd) ==
  IF parseRowIndex(input) # Null THEN parseRowIndex(input)
  ELSE IF getActiveRange # Null
  THEN Some(Min(getActiveRange[1].startRow, getActiveRange[1].endRow))
  ELSE IF allowEnd THEN Some(Len(rows)) ELSE Null

\* t(`Column ${n}`)
ColumnLabel(n) ==
  CASE n = 1 -> "Column 1" [] n = 2 -> "Column 2" [] n = 3 -> "Column 3"
    [] n = 4 -> "Column 4" [] OTHER -> "Column 5"

RECURSIVE NormalizeFrom(_, _, _)
NormalizeFrom(values, ops, idx) ==
  IF idx = 0 THEN values
  ELSE LET op == ops[idx]
           reverted ==
             IF op.type = "insert"
             THEN (IF op.index >= 0 /\ op.index < Len(values)
                   THEN WithoutIndex(values, op.index) ELSE values)
             ELSE IF op.type = "delete"
             THEN (IF op.index <= Len(values)
                   THEN InsertAt(values, op.index, "")
                   ELSE Append(values, ""))
             ELSE values
       IN NormalizeFrom(reverted, ops, idx - 1)

normalizeRowValuesForOps(values) ==
  NormalizeFrom(values, columnOps, Len(columnOps))

BlankRow(n) == [i \in 1..n |-> ""]

resetTransientEdits ==
  /\ undoStack' = <<>>
  /\ redoStack' = <<>>

clearSelection ==
  /\ selectionRanges' = <<>>
  /\ selectionAnchor' = Null
  /\ selectionMode' = "cell"

\* insertRowAt(target) with no values: a blank row
insertRowAt(target) ==
  LET nextRow == BlankRow(dataColumnCount)
      opValues == normalizeRowValuesForOps(nextRow)
  IN /\ rowOps' = Append(rowOps,
          [type |-> "insert", index |-> target, values |-> opValues])
     /\ rows' = IF target > Len(rows) THEN rows
                ELSE InsertAt(rows, target, nextRow)
     /\ patches' = shiftPatchesForRowInsert(patches, target)
     /\ resetTransientEdits
     /\ clearSelection

\* what every row and column button leaves alone
OpFrame ==
  UNCHANGED <<sessionId, eof, activePath, delimiterApplied, preview,
              delimiter, loading, fileMode, windowVars, ruleVars, procVars,
              gen, resident>>

Rejected(name, message) ==
  /\ error' = Some(message)
  /\ last' = name
  /\ UNCHANGED <<headers, rows, editVars, opVars, selVars,
                 mark, undone, branched, prior,
                 stamp, snap>>

insertRow(input) ==
  LET target == resolveRowTarget(input, TRUE)
  IN /\ fileMode # "text" /\ ~loading
     /\ IF target = Null
        THEN Rejected("insertRowRejected", "Row index is invalid.")
        ELSE /\ Len(rowOps) + Len(columnOps) < MaxOps
             /\ insertRowAt(target[1])
             /\ mark' = patches'
             /\ undone' = 0
             /\ branched' = FALSE
             /\ prior' = patches
             /\ stamp' = gen
             /\ snap' = Null
             /\ last' = "insertRow"
             /\ UNCHANGED <<headers, columnOps, error>>
     /\ OpFrame

deleteRow(input) ==
  LET target == resolveRowTarget(input, FALSE)
  IN /\ fileMode # "text" /\ ~loading
     /\ IF target = Null
        THEN Rejected("deleteRowRejected", "Select a row to delete.")
        ELSE /\ Len(rowOps) + Len(columnOps) < MaxOps
             /\ rowOps' = Append(rowOps,
                  [type |-> "delete", index |-> target[1], values |-> <<>>])
             /\ rows' = WithoutIndex(rows, target[1])
             /\ patches' = shiftPatchesForRowDelete(patches, target[1])
             /\ resetTransientEdits
             /\ clearSelection
             /\ mark' = patches'
             /\ undone' = 0
             /\ branched' = FALSE
             /\ prior' = patches
             /\ stamp' = gen
             /\ snap' = Null
             /\ last' = "deleteRow"
             /\ UNCHANGED <<headers, columnOps, error>>
     /\ OpFrame

\* a faulty column insert: its entry goes to the front of the log
InsertColumnAtLogsFirst(index, name) ==
  /\ columnOps' = <<[type |-> "insert", index |-> index, name |-> name]>>
                     \o columnOps
  /\ headers' = InsertAt(headers, index, name)
  /\ rows' = [i \in 1..Len(rows) |-> InsertAt(rows[i], index, "")]
  /\ patches' = shiftPatchesForColInsert(patches, index)

insertColumnAt(index, name) ==
  /\ columnOps' = Append(columnOps,
       [type |-> "insert", index |-> index, name |-> name])
  /\ headers' = InsertAt(headers, index, name)
  /\ rows' = [i \in 1..Len(rows) |-> InsertAt(rows[i], index, "")]
  /\ patches' = shiftPatchesForColInsert(patches, index)

insertColumn(input, nameInput) ==
  LET index == parseColumnIndex(input, TRUE)
      name == IF nameInput # "" THEN nameInput
              ELSE ColumnLabel(Len(headers) + 1)
  IN /\ fileMode # "text" /\ ~loading /\ preview # Null
     /\ IF index = Null
        THEN Rejected("insertColumnRejected",
                      "Column index is invalid for insert.")
        ELSE /\ Len(rowOps) + Len(columnOps) < MaxOps
             /\ error' = Null
             /\ insertColumnAt(index[1], name)
             /\ resetTransientEdits
             /\ clearSelection
             /\ mark' = patches'
             /\ undone' = 0
             /\ branched' = FALSE
             /\ prior' = patches
             /\ stamp' = gen
             /\ snap' = Some([headers |-> headers, patches |-> patches,
                               index |-> index[1]])
             /\ last' = "insertColumn"
             /\ UNCHANGED rowOps
     /\ OpFrame

deleteColumn(input) ==
  LET index == parseColumnIndex(input, FALSE)
  IN /\ fileMode # "text" /\ ~loading /\ preview # Null
     /\ IF index = Null
        THEN Rejected("deleteColumnRejected",
                      "Column index is invalid for delete.")
        ELSE /\ Len(rowOps) + Len(columnOps) < MaxOps
             /\ error' = Null
             /\ columnOps' = Append(columnOps,
                  [type |-> "delete", index |-> index[1], name |-> ""])
             /\ headers' = WithoutIndex(headers, index[1])
             /\ rows' = [i \in 1..Len(rows) |-> WithoutIndex(rows[i], index[1])]
             /\ patches' = shiftPatchesForColDelete(patches, index[1])
             /\ resetTransientEdits
             /\ clearSelection
             /\ mark' = patches'
             /\ undone' = 0
             /\ branched' = FALSE
             /\ prior' = patches
             /\ stamp' = gen
             /\ snap' = Null
             /\ last' = "deleteColumn"
             /\ UNCHANGED rowOps
     /\ OpFrame

\* a faulty rename: it empties the stacks as the other column operations do
RenameColumnResetsStacks(input, nameInput) ==
  LET index == parseColumnIndex(input, FALSE)
  IN /\ fileMode # "text" /\ ~loading /\ preview # Null
     /\ IF index = Null
        THEN Rejected("renameColumnRejected",
                      "Column index is invalid for rename.")
        ELSE IF nameInput = ""
        THEN Rejected("renameColumnRejected",
                      "Column name is required for rename.")
        ELSE /\ Len(rowOps) + Len(columnOps) < MaxOps
             /\ error' = Null
             /\ columnOps' = Append(columnOps,
                  [type |-> "rename", index |-> index[1], name |-> nameInput])
             /\ headers' = [i \in 1..Len(headers) |->
                              IF i - 1 = index[1] THEN nameInput ELSE headers[i]]
             /\ last' = "renameColumn"
             /\ stamp' = gen
             /\ snap' = Null
             /\ resetTransientEdits
             /\ UNCHANGED <<rows, patches, rowOps, selVars,
                            mark, undone, branched, prior>>
     /\ OpFrame

renameColumn(input, nameInput) ==
  LET index == parseColumnIndex(input, FALSE)
  IN /\ fileMode # "text" /\ ~loading /\ preview # Null
     /\ IF index = Null
        THEN Rejected("renameColumnRejected",
                      "Column index is invalid for rename.")
        ELSE IF nameInput = ""
        THEN Rejected("renameColumnRejected",
                      "Column name is required for rename.")
        ELSE /\ Len(rowOps) + Len(columnOps) < MaxOps
             /\ error' = Null
             /\ columnOps' = Append(columnOps,
                  [type |-> "rename", index |-> index[1], name |-> nameInput])
             /\ headers' = [i \in 1..Len(headers) |->
                              IF i - 1 = index[1] THEN nameInput ELSE headers[i]]
             /\ last' = "renameColumn"
             /\ stamp' = gen
             /\ snap' = Null
             /\ UNCHANGED <<rows, editVars, rowOps, selVars,
                            mark, undone, branched, prior>>
     /\ OpFrame

\* the Clear edits command: the overlay, both stacks and both logs are
\* emptied; headers and rows stay as the operations left them
clearEdits ==
  /\ fileMode # "text"
  /\ patches' = EmptyMap
  /\ undoStack' = <<>>
  /\ redoStack' = <<>>
  /\ rowOps' = <<>>
  /\ columnOps' = <<>>
  /\ error' = Null
  /\ mark' = EmptyMap
  /\ undone' = 0
  /\ branched' = FALSE
  /\ prior' = patches
  /\ stamp' = gen
  /\ snap' = Null
  /\ resident' = FALSE
  /\ last' = "clearEdits"
  /\ UNCHANGED <<sessionVars, fileMode, windowVars, ruleVars, selVars,
                 procVars, gen>>

(***************************************************************************)
(* The rule panel.                                                         *)
(***************************************************************************)
RuleFrame ==
  UNCHANGED <<sessionVars, fileMode, windowVars, editVars, error, opVars,
              selVars, procVars, histVars>>

addSortRule(column, direction) ==
  /\ column # ""
  /\ Len(sortRules) < MaxRules
  /\ sortRules' = Append(sortRules, [column |-> column, direction |-> direction])
  /\ last' = "addSortRule"
  /\ UNCHANGED filterRules
  /\ RuleFrame

addFilterRule(column, value) ==
  /\ column # ""
  /\ value # ""
  /\ Len(filterRules) < MaxRules
  /\ filterRules' = Append(filterRules, [column |-> column, value |-> value])
  /\ last' = "addFilterRule"
  /\ UNCHANGED sortRules
  /\ RuleFrame

clearSortFilter ==
  /\ hasSortFilter
  /\ sortRules' = <<>>
  /\ filterRules' = <<>>
  /\ last' = "clearSortFilter"
  /\ RuleFrame

removeSortRule(index) ==
  /\ index \in 0..(Len(sortRules) - 1)
  /\ sortRules' = WithoutIndex(sortRules, index)
  /\ last' = "removeSortRule"
  /\ UNCHANGED filterRules
  /\ RuleFrame

removeFilterRule(index) ==
  /\ index \in 0..(Len(filterRules) - 1)
  /\ filterRules' = WithoutIndex(filterRules, index)
  /\ last' = "removeFilterRule"
  /\ UNCHANGED sortRules
  /\ RuleFrame

(***************************************************************************)
(* Paste.  pasteSelection runs ensureRowIndex, ensureColumnIndex and       *)
(* applyPatch once per clipboard cell inside one event: each call reads    *)
(* headers, rows, patches and windowStart as the last render had them (the *)
(* unprimed variables) and queues updaters, which apply in order to the    *)
(* state the earlier ones have produced (the record st).  The clipboard    *)
(* holds one line of cells and answers before any other event.             *)
(***************************************************************************)
PasteStart ==
  [headers |-> headers, rows |-> rows, patches |-> patches,
   columnOps |-> columnOps, undoStack |-> undoStack, redoStack |-> redoStack]

\* the updaters insertColumnAt(index, name) queues
insertColumnAtIn(st, index, name) ==
  [st EXCEPT
     !.columnOps = Append(@, [type |-> "insert", index |-> index,
                              name |-> name]),
     !.headers = InsertAt(@, index, name),
     !.rows = [i \in 1..Len(@) |-> InsertAt(@[i], index, "")],
     !.patches = shiftPatchesForColInsert(@, index)]

\* for (let idx = headers.length; idx <= targetCol; idx += 1)
RECURSIVE ensureColumnIndexFrom(_, _, _)
ensureColumnIndexFrom(st, idx, targetCol) ==
  IF idx > targetCol THEN st
  ELSE ensureColumnIndexFrom(insertColumnAtIn(st, idx, ColumnLabel(idx + 1)),
                             idx + 1, targetCol)

ensureColumnIndex(st, targetCol) ==
  IF targetCol < Len(headers) THEN st
  ELSE ensureColumnIndexFrom(st, Len(headers), targetCol)

\* the updaters applyPatch(row, col, value) queues
applyPatchIn(st, row, col, value) ==
  LET localRow == row - windowStart
      key == KeyOf(row, col)
      baseValue == Cell(rows, localRow, col)
      op == PatchOpFor(key, key \in DOMAIN patches, baseValue, value)
  IN IF applyPatchReturnsEarly(row, col, value) THEN st
     ELSE [st EXCEPT !.patches = applyPatchValue(@, key, op.next),
                     !.undoStack = Append(@, op),
                     !.redoStack = <<>>]

\* cells.forEach((value, colOffset) => ...) of the one line, from colOffset
\* off on
RECURSIVE pasteCells(_, _, _, _)
pasteCells(st, range, cells, off) ==
  IF off >= Len(cells) THEN st
  ELSE pasteCells(
         applyPatchIn(ensureColumnIndex(st, range.startCol + off),
                      range.startRow, range.startCol + off, cells[off + 1]),
         range, cells, off + 1)

\* the Paste button with the one-line clipboard cells, on a selection whose
\* first row is loaded (ensureRowIndex returns at once)
pasteSelection(cells) ==
  LET range == getActiveRange
  IN /\ fileMode # "text" /\ ~loading
     /\ IF range = Null
        THEN Rejected("pasteRejected", "Select a start cell to paste.")
        ELSE LET result == pasteCells(PasteStart, range[1], cells, 0)
             IN /\ range[1].startRow < Len(rows)
                /\ result # PasteStart
                /\ Len(rowOps) + Len(columnOps) < MaxOps
                /\ Len(undoStack) < MaxUndo
                /\ headers' = result.headers
                /\ rows' = result.rows
                /\ patches' = result.patches
                /\ columnOps' = result.columnOps
                /\ undoStack' = result.undoStack
                /\ redoStack' = result.redoStack
                /\ mark' = patches'
                /\ undone' = 0
                /\ branched' = (branched \/ Len(redoStack) > 0)
                /\ prior' = patches
                /\ stamp' = gen
                /\ snap' = Null
                /\ last' = "paste"
                /\ UNCHANGED <<rowOps, error, selVars>>
     /\ OpFrame

(***************************************************************************)
(* Selection: useSelection(rows.length, selectionColumnCount).  A point is *)
(* a record of row and col, a range a record of startRow, endRow, startCol *)
(* and endCol.                                                             *)
(***************************************************************************)
\* the counts App hands to useSelection
rowCount == Len(rows)

colCount == columnCount

normalizeRange(range) ==
  [startRow |-> Min(range.startRow, range.endRow),
   endRow |-> Max(range.startRow, range.endRow),
   startCol |-> Min(range.startCol, range.endCol),
   endCol |-> Max(range.startCol, range.endCol)]

\* a faulty buildRange: in row and col mode it keeps the clamped coordinates
\* of the orthogonal axis
BuildRangeKeepsOrthogonal(anchor, focus, mode) ==
  IF rowCount = 0 \/ colCount = 0 THEN Null
  ELSE Some(normalizeRange(
         [startRow |-> clamp(anchor.row, 0, rowCount - 1),
          endRow |-> clamp(focus.row, 0, rowCount - 1),
          startCol |-> clamp(anchor.col, 0, colCount - 1),
          endCol |-> clamp(focus.col, 0, colCount - 1)]))

buildRange(anchor, focus, mode) ==
  IF rowCount = 0 \/ colCount = 0 THEN Null
  ELSE LET startRow == clamp(anchor.row, 0, rowCount - 1)
           endRow == clamp(focus.row, 0, rowCount - 1)
           startCol == clamp(anchor.col, 0, colCount - 1)
           endCol == clamp(focus.col, 0, colCount - 1)
       IN IF mode = "row"
          THEN Some(normalizeRange([startRow |-> startRow, endRow |-> endRow,
                                    startCol |-> 0, endCol |-> colCount - 1]))
          ELSE IF mode = "col"
          THEN Some(normalizeRange([startRow |-> 0, endRow |-> rowCount - 1,
                                    startCol |-> startCol, endCol |-> endCol]))
          ELSE Some(normalizeRange([startRow |-> startRow, endRow |-> endRow,
                                    startCol |-> startCol, endCol |-> endCol]))

\* a faulty anchor: a stored anchor is kept whatever the modifiers
AnchorKeepsStored(point, shift) ==
  IF selectionAnchor # Null THEN selectionAnchor[1] ELSE point

\* options.shift ? selectionAnchor ?? point : point
selectionAnchorFor(point, shift) ==
  IF shift THEN (IF selectionAnchor # Null THEN selectionAnchor[1] ELSE point)
  ELSE point

\* a faulty list update: a click with no modifier appends its range
NextRangesPlainAppends(prev, range, shift, ctrl) ==
  IF ctrl THEN Append(prev, range)
  ELSE IF shift
  THEN (IF Len(prev) > 0
        THEN Append(SubSeq(prev, 1, Len(prev) - 1), range)
        ELSE <<range>>)
  ELSE Append(prev, range)

\* the list updateSelection hands to setSelectionRanges
nextSelectionRanges(prev, range, shift, ctrl) ==
  IF ctrl THEN Append(prev, range)
  ELSE IF shift
  THEN (IF Len(prev) > 0
        THEN Append(SubSeq(prev, 1, Len(prev) - 1), range)
        ELSE <<range>>)
  ELSE <<range>>

\* the ranges, the anchor and the mode as updateSelection(point, mode,
\* {shift, ctrl}) leaves them
updateSelectionResult(point, mode, shift, ctrl) ==
  LET anchor == selectionAnchorFor(point, shift)
      range == buildRange(anchor, point, mode)
  IN IF range = Null
     THEN [ranges |-> selectionRanges, anchor |-> selectionAnchor,
           mode |-> selectionMode]
     ELSE [ranges |-> nextSelectionRanges(selectionRanges, range[1],
                                          shift, ctrl),
           anchor |-> Some(anchor), mode |-> mode]

\* the name the properties know a click by
ClickName(shift, ctrl) ==
  IF shift /\ ctrl THEN "shiftCtrlClick"
  ELSE IF shift THEN "shiftClick"
  ELSE IF ctrl THEN "ctrlClick"
  ELSE "click"

ClickNames == {"click", "ctrlClick", "shiftClick", "shiftCtrlClick"}

\* onMouseDown of a header cell (col), a row header (row) or a cell (cell)
\* the grid renders
updateSelection(point, mode, shift, ctrl) ==
  LET result == updateSelectionResult(point, mode, shift, ctrl)
  IN /\ fileMode = "csv"
     /\ point.row \in 0..(totalRowCount - 1)
     /\ point.col \in GridCols
     /\ mode = "col" => point.row = 0
     /\ mode = "row" => point.col = 0
     /\ buildRange(selectionAnchorFor(point, shift), point, mode) # Null
     /\ Len(result.ranges) <= MaxRanges
     /\ selectionRanges' = result.ranges
     /\ selectionAnchor' = result.anchor
     /\ selectionMode' = result.mode
     /\ last' = ClickName(shift, ctrl)
     /\ UNCHANGED <<sessionVars, fileMode, windowVars, editVars, error,
                    ruleVars, opVars, procVars, histVars>>

(***************************************************************************)
(* Save.  saveAs hands the overlay, rowOps and columnOps to the backend    *)
(* command save_csv_with_patches, which replays them over the file in      *)
(* three phases: row operations located at the rows of the file, column    *)
(* operations on every emitted row, then the overlay at the coordinates    *)
(* of the result.                                                          *)
(***************************************************************************)
\* the values of the insert operations of the log at one of the indices
RECURSIVE InsertedRows(_, _)
InsertedRows(ops, indices) ==
  IF Len(ops) = 0 THEN <<>>
  ELSE (IF Head(ops).type = "insert" /\ Head(ops).index \in indices
        THEN <<Head(ops).values>> ELSE <<>>)
       \o InsertedRows(Tail(ops), indices)

RowDeleted(ops, p) ==
  \E n \in 1..Len(ops) : ops[n].type = "delete" /\ ops[n].index = p

\* phase 1 from row p of the file on: the rows inserted at p, then row p
\* unless it is deleted; the rows inserted at or past the end come last
RECURSIVE ReplayRowOps(_, _, _)
ReplayRowOps(fileRows, ops, p) ==
  IF p >= Len(fileRows)
  THEN InsertedRows(ops, {ops[n].index : n \in 1..Len(ops)} \ (0..(p - 1)))
  ELSE InsertedRows(ops, {p})
       \o (IF RowDeleted(ops, p) THEN <<>> ELSE <<fileRows[p + 1]>>)
       \o ReplayRowOps(fileRows, ops, p + 1)

\* phase 2 on one row: the column operations in log order, a new cell blank
RECURSIVE ReplayColumnOps(_, _)
ReplayColumnOps(row, ops) ==
  IF Len(ops) = 0 THEN row
  ELSE LET op == Head(ops)
           next == IF op.type = "insert" THEN InsertAt(row, op.index, "")
                   ELSE IF op.type = "delete" THEN WithoutIndex(row, op.index)
                   ELSE row
       IN ReplayColumnOps(next, Tail(ops))

\* phase 2 on the header row: a new column takes its name, a rename replaces
RECURSIVE ReplayHeaderOps(_, _)
ReplayHeaderOps(row, ops) ==
  IF Len(ops) = 0 THEN row
  ELSE LET op == Head(ops)
           next == IF op.type = "insert" THEN InsertAt(row, op.index, op.name)
                   ELSE IF op.type = "delete" THEN WithoutIndex(row, op.index)
                   ELSE [i \in 1..Len(row) |->
                           IF i - 1 = op.index THEN op.name ELSE row[i]]
       IN ReplayHeaderOps(next, Tail(ops))

\* phase 3: the overlay entry of a cell replaces the cell
ReplayPatches(rs, p) ==
  [r \in 1..Len(rs) |->
     [c \in 1..Len(rs[r]) |->
        IF KeyOf(r - 1, c - 1) \in DOMAIN p THEN p[KeyOf(r - 1, c - 1)]
        ELSE rs[r][c]]]

\* what save writes for the file the session is on
SaveReplay(path, delim) ==
  LET emitted == ReplayRowOps(FileRows(path, delim), rowOps, 0)
      reshaped == [r \in 1..Len(emitted) |->
                     ReplayColumnOps(emitted[r], columnOps)]
  IN [headers |-> ReplayHeaderOps(FileHeaders(path, delim), columnOps),
      rows |-> ReplayPatches(reshaped, patches)]

\* the headers and cells the grid shows
Displayed ==
  [headers |-> headers,
   rows |-> [r \in 1..Len(rows) |->
               [c \in 1..Len(headers) |->
                  getCellValue(windowStart + r - 1, c - 1)]]]

(***************************************************************************)
(* Editing one file: a session on file A with its window, cell edits and   *)
(* undo/redo.                                                              *)
(***************************************************************************)
EditRows == 1..3

EditCols == 0..1

EditValues == {"a", "b"}

OpenFileA ==
  \/ (gen = 0 /\ handleOpen)
  \/ DialogCancelled
  \/ CsvChosen("A")
  \/ SessionOpened
  \/ \E i \in 1..Len(fetches) : WindowLoaded(i)
  \/ \E j \in 1..Len(counts) : RowsCounted(j)

Next ==
  \/ OpenFileA
  \/ \E row \in EditRows, col \in EditCols, value \in EditValues :
       applyPatch(row, col, value)
  \/ undo
  \/ redo

Spec == Init /\ [][Next]_vars

(***************************************************************************)
(* Row operations on one file, with the manual and the scroll-driven       *)
(* window fetch.                                                           *)
(***************************************************************************)
OpsEdits == {<<1, 0>>, <<2, 1>>}

RowInputs == {Null, Some(0), Some(1), Some(2), Some(5)}

Views == {<<0, 0>>}

NextWindow ==
  \/ OpenFileA
  \/ loadNextWindow
  \/ \E v \in Views : onChange(v[1], v[2])
  \/ \E cell \in OpsEdits : applyPatch(cell[1], cell[2], "b")
  \/ \E input \in RowInputs : insertRow(input)
  \/ \E input \in RowInputs : deleteRow(input)

SpecWindow == Init /\ [][NextWindow]_vars

(***************************************************************************)
(* Row and column operations on one file whose rows are all resident.      *)
(***************************************************************************)
ColumnInputs == {Some(0), Some(1), Some(2)}

NextOps ==
  \/ OpenFileA
  \/ \E cell \in OpsEdits : applyPatch(cell[1], cell[2], "b")
  \/ \E input \in {Some(0), Some(1)} : insertRow(input)
  \/ \E input \in {Some(0), Some(1)} : deleteRow(input)
  \/ \E input \in ColumnInputs : insertColumn(input, "")
  \/ \E input \in ColumnInputs : deleteColumn(input)
  \/ renameColumn(Some(0), "n")

SpecOps == Init /\ [][NextOps]_vars

(***************************************************************************)
(* Sessions: opening csv and text files, re-applying the delimiter, the    *)
(* backend failing, with a cell edit, a row insert, a column rename and    *)
(* undo to give the session something to lose.                             *)
(***************************************************************************)
NextSession ==
  \/ handleOpen
  \/ DialogCancelled
  \/ \E path \in Paths : CsvChosen(path)
  \/ SessionClosed
  \/ SessionOpened
  \/ OpenFailed
  \/ TextChosen
  \/ TextSessionClosed
  \/ TextOpened
  \/ setDelimiter(";")
  \/ handleApplyDelimiter
  \/ DelimiterApplied
  \/ \E i \in 1..Len(fetches) : WindowLoaded(i)
  \/ \E j \in 1..Len(counts) : RowsCounted(j)
  \/ applyPatch(1, 0, "b")
  \/ undo
  \/ insertRow(Some(0))
  \/ renameColumn(Some(0), "n")

SpecSession == Init /\ [][NextSession]_vars

(***************************************************************************)
(* Fetches that fail: one file, the manual and the scroll-driven fetch, a  *)
(* cell edit and a row delete, with the backend failing reads and counts.  *)
(***************************************************************************)
NextFetch ==
  \/ OpenFileA
  \/ loadNextWindow
  \/ \E v \in Views : onChange(v[1], v[2])
  \/ applyPatch(1, 0, "b")
  \/ deleteRow(Some(0))
  \/ \E i \in 1..Len(fetches) : WindowFailed(i)
  \/ \E j \in 1..Len(counts) : CountFailed(j)

SpecFetch == Init /\ [][NextFetch]_vars

(***************************************************************************)
(* Scrolling through one long file: a session on one of the files L, M, W  *)
(* and H, the scroll positions the grid reports, and an edit of one cell.  *)
(***************************************************************************)
ScrollViews ==
  {<<370, 395>>, <<485, 510>>, <<600, 625>>, <<100, 125>>, <<0, 25>>}

NextScroll ==
  \/ (gen = 0 /\ handleOpen)
  \/ DialogCancelled
  \/ \E path \in LongPaths : CsvChosen(path)
  \/ SessionOpened
  \/ \E i \in 1..Len(fetches) : WindowLoaded(i)
  \/ \E j \in 1..Len(counts) : RowsCounted(j)
  \/ \E v \in ScrollViews : onChange(v[1], v[2])
  \/ applyPatch(390, 0, "b")
  \/ undo

SpecScroll == Init /\ [][NextScroll]_vars

(***************************************************************************)
(* The operation logs: row and column operations on one file and the      *)
(* Clear edits command.  The table is kept small by its guards: a row is   *)
(* inserted into fewer than MaxRows rows and a column into fewer than      *)
(* MaxColumns columns.                                                     *)
(***************************************************************************)
MaxRows == 3

MaxColumns == 2

NextLog ==
  \/ OpenFileA
  \/ (Len(rows) < MaxRows /\ insertRow(Some(0)))
  \/ deleteRow(Some(0))
  \/ (Len(headers) < MaxColumns /\ insertColumn(Some(0), ""))
  \/ deleteColumn(Some(0))
  \/ renameColumn(Some(0), "n")
  \/ (Len(rowOps) + Len(columnOps) > 0 /\ clearEdits)

SpecLog == Init /\ [][NextLog]_vars

(***************************************************************************)
(* The stacks under structural operations: a cell edit with undo and redo, *)
(* every row and column operation at index 0, and a paste of two or three  *)
(* cells at the cell of row 0 and column 1.                                *)
(***************************************************************************)
Clipboards == {<<"b", "b">>, <<"b", "b", "b">>}

NextStacks ==
  \/ OpenFileA
  \/ applyPatch(1, 0, "b")
  \/ undo
  \/ redo
  \/ insertRow(Some(0))
  \/ deleteRow(Some(0))
  \/ insertColumn(Some(0), "")
  \/ deleteColumn(Some(0))
  \/ renameColumn(Some(0), "n")
  \/ updateSelection([row |-> 0, col |-> 1], "cell", FALSE, FALSE)
  \/ \E cells \in Clipboards : pasteSelection(cells)

SpecStacks == Init /\ [][NextStacks]_vars

(***************************************************************************)
(* Selecting in one file whose rows are all loaded: mouse downs on cells,  *)
(* row headers and column headers with and without modifiers, and the      *)
(* deletes that act on the selection.                                      *)
(***************************************************************************)
ClickPoints == {[row |-> 0, col |-> 0], [row |-> 2, col |-> 1]}

Modes == {"cell", "row", "col"}

\* the point the grid hands to updateSelection for a mouse down in the row
\* and column of p: a column header passes row 0, a row header column 0
PointOf(p, mode) ==
  [row |-> IF mode = "col" THEN 0 ELSE p.row,
   col |-> IF mode = "row" THEN 0 ELSE p.col]

NextSelect ==
  \/ OpenFileA
  \/ \E p \in ClickPoints, mode \in Modes, shift \in BOOLEAN, ctrl \in BOOLEAN :
       updateSelection(PointOf(p, mode), mode, shift, ctrl)
  \/ deleteRow(Null)
  \/ deleteColumn(Some(1))

SpecSelect == Init /\ [][NextSelect]_vars

(***************************************************************************)
(* Selecting in a file longer than its window: file S, the manual fetch    *)
(* of the next window, and mouse downs in the first and the second window. *)
(***************************************************************************)
TailPoints == {[row |-> 0, col |-> 0], [row |-> 399, col |-> 0],
               [row |-> 420, col |-> 0]}

NextTail ==
  \/ (gen = 0 /\ handleOpen)
  \/ DialogCancelled
  \/ CsvChosen("S")
  \/ SessionOpened
  \/ \E i \in 1..Len(fetches) : WindowLoaded(i)
  \/ \E j \in 1..Len(counts) : RowsCounted(j)
  \/ loadNextWindow
  \/ \E p \in TailPoints, mode \in Modes, ctrl \in BOOLEAN :
       updateSelection(PointOf(p, mode), mode, FALSE, ctrl)

SpecTail == Init /\ [][NextTail]_vars

(***************************************************************************)
(* The sorted and filtered view: file A, three cell edits that make rows   *)
(* tie, and the rule panel.                                                *)
(***************************************************************************)
SortInputs == {<<"0", "asc">>, <<"1", "desc">>, <<"x", "asc">>}

FilterInputs == {<<"0", "a">>, <<"x", "a">>}

NextView ==
  \/ OpenFileA
  \/ applyPatch(0, 0, "a")
  \/ applyPatch(2, 0, "A")
  \/ applyPatch(2, 1, "r")
  \/ \E r \in SortInputs : addSortRule(r[1], r[2])
  \/ \E f \in FilterInputs : addFilterRule(f[1], f[2])
  \/ clearSortFilter
  \/ \E index \in 0..(MaxRules - 1) : removeSortRule(index)
  \/ \E index \in 0..(MaxRules - 1) : removeFilterRule(index)

SpecView == Init /\ [][NextView]_vars

(***************************************************************************)
(* Scrolling with rules: file L, the scroll positions the grid reports,    *)
(* and the rule panel.                                                     *)
(***************************************************************************)
NextRules ==
  \/ (gen = 0 /\ handleOpen)
  \/ DialogCancelled
  \/ CsvChosen("L")
  \/ SessionOpened
  \/ \E i \in 1..Len(fetches) : WindowLoaded(i)
  \/ \E j \in 1..Len(counts) : RowsCounted(j)
  \/ \E v \in ScrollViews : onChange(v[1], v[2])
  \/ addSortRule("0", "asc")
  \/ addFilterRule("x", "b")
  \/ clearSortFilter
  \/ removeSortRule(0)
  \/ removeFilterRule(0)

SpecRules == Init /\ [][NextRules]_vars

(***************************************************************************)
(* Renaming columns: file A, a cell edit and its undo, a row insert, a     *)
(* mouse down on a cell, and renames of a column the file has and of one   *)
(* it does not have.                                                       *)
(***************************************************************************)
NextRename ==
  \/ OpenFileA
  \/ applyPatch(1, 0, "b")
  \/ undo
  \/ insertRow(Some(0))
  \/ updateSelection([row |-> 0, col |-> 1], "cell", FALSE, FALSE)
  \/ \E input \in {Some(0), Some(1), Some(2)} : renameColumn(input, "n")

SpecRename == Init /\ [][NextRename]_vars

(***************************************************************************)
(* Scrolling through a file whose rows get heavier: file T, scroll         *)
(* positions in its first window and at its end, the manual fetch of the   *)
(* next window, and an edit of one cell.                                   *)
(***************************************************************************)
DriftViews == {<<420, 445>>, <<370, 395>>, <<100, 125>>}

NextDrift ==
  \/ (gen = 0 /\ handleOpen)
  \/ DialogCancelled
  \/ CsvChosen("T")
  \/ SessionOpened
  \/ \E i \in 1..Len(fetches) : WindowLoaded(i)
  \/ \E j \in 1..Len(counts) : RowsCounted(j)
  \/ \E v \in DriftViews : onChange(v[1], v[2])
  \/ loadNextWindow
  \/ applyPatch(430, 0, "b")
  \/ undo

SpecDrift == Init /\ [][NextDrift]_vars

UndoRestoresPriorOverlay ==
  [][(last = "set" /\ last' = "undo") => patches' = prior]_vars

\* C3: a row insert at index i moves every overlay entry of a row >= i one row
\* down with its column and value, leaves the entries of rows < i alone, and
\* keeps the number of entries.
RowInsertRemapsOverlay ==
  last = "insertRow" =>
    LET i == rowOps[Len(rowOps)].index
    IN /\ \A k \in DOMAIN prior :
            IF KeyRow(k) >= i
            THEN /\ KeyOf(KeyRow(k) + 1, KeyCol(k)) \in DOMAIN patches
                 /\ patches[KeyOf(KeyRow(k) + 1, KeyCol(k))] = prior[k]
            ELSE k \in DOMAIN patches /\ patches[k] = prior[k]
       /\ Cardinality(DOMAIN patches) = Cardinality(DOMAIN prior)

\* a row insert with overlay entries on both sides of the index
RowInsertRemapsOverlayReached ==
  /\ last = "insertRow"
  /\ \E k1, k2 \in DOMAIN prior :
       /\ KeyRow(k1) >= rowOps[Len(rowOps)].index
       /\ KeyRow(k2) < rowOps[Len(rowOps)].index

\* C4: a row delete at index i drops the overlay entries of row i, moves every
\* entry of a row > i one row up, leaves the entries of rows < i alone, and
\* keeps columns and values: the entries left are those of the other rows.
RowDeleteRemapsOverlay ==
  last = "deleteRow" =>
    LET i == rowOps[Len(rowOps)].index
        others == {k \in DOMAIN prior : KeyRow(k) # i}
    IN /\ \A k \in others :
            IF KeyRow(k) > i
            THEN /\ KeyOf(KeyRow(k) - 1, KeyCol(k)) \in DOMAIN patches
                 /\ patches[KeyOf(KeyRow(k) - 1, KeyCol(k))] = prior[k]
            ELSE k \in DOMAIN patches /\ patches[k] = prior[k]
       /\ Cardinality(DOMAIN patches) = Cardinality(others)

\* a row delete that drops an entry and moves another
RowDeleteRemapsOverlayReached ==
  /\ last = "deleteRow"
  /\ \E k1, k2 \in DOMAIN prior :
       /\ KeyRow(k1) = rowOps[Len(rowOps)].index
       /\ KeyRow(k2) > rowOps[Len(rowOps)].index

\* C5: column insert and delete remap the overlay on the column axis as the
\* row operations do on the row axis: insert at i moves the entries of columns
\* >= i one column right, delete at i drops the entries of column i and moves
\* those of columns > i one column left; rows and values are kept and no two
\* entries land on one key.
ColumnOpsRemapOverlay ==
  LET i == columnOps[Len(columnOps)].index
      others == {k \in DOMAIN prior : KeyCol(k) # i}
  IN /\ last = "insertColumn" =>
          /\ \A k \in DOMAIN prior :
               IF KeyCol(k) >= i
               THEN /\ KeyOf(KeyRow(k), KeyCol(k) + 1) \in DOMAIN patches
                    /\ patches[KeyOf(KeyRow(k), KeyCol(k) + 1)] = prior[k]
               ELSE k \in DOMAIN patches /\ patches[k] = prior[k]
          /\ Cardinality(DOMAIN patches) = Cardinality(DOMAIN prior)
     /\ last = "deleteColumn" =>
          /\ \A k \in others :
               IF KeyCol(k) > i
               THEN /\ KeyOf(KeyRow(k), KeyCol(k) - 1) \in DOMAIN patches
                    /\ patches[KeyOf(KeyRow(k), KeyCol(k) - 1)] = prior[k]
               ELSE k \in DOMAIN patches /\ patches[k] = prior[k]
          /\ Cardinality(DOMAIN patches) = Cardinality(others)

\* a column insert, then a column delete that drops an entry and moves another
ColumnOpsRemapOverlayReached ==
  /\ last = "deleteColumn"
  /\ Len(columnOps) = 2 /\ columnOps[1].type = "insert"
  /\ \E k1, k2 \in DOMAIN prior :
       /\ KeyCol(k1) = columnOps[2].index
       /\ KeyCol(k2) > columnOps[2].index

\* C6: after a blank row is inserted at logical index i the grid shows the
\* shifted document wherever the window starts: row i is blank, a resident
\* row r >= i is shown at r + 1, the rows before i are shown as before, and
\* an edit made at (1,0) before an insert at 1 is in the overlay at (2,0).
RowInsertShiftsDisplay ==
  [][last' = "insertRow" =>
       LET i == rowOps'[Len(rowOps')].index
           shown(r, c) ==
             GetCellValueIn(patches', rows', windowStart', r, c)
       IN /\ \A c \in GridCols :
               /\ shown(i, c) = ""
               /\ \A r \in windowStart..(windowStart + Len(rows) - 1) :
                    IF r >= i THEN shown(r + 1, c) = getCellValue(r, c)
                    ELSE shown(r, c) = getCellValue(r, c)
          /\ (i = 1 /\ KeyOf(1, 0) \in DOMAIN patches) =>
               /\ KeyOf(2, 0) \in DOMAIN patches'
               /\ patches'[KeyOf(2, 0)] = patches[KeyOf(1, 0)]]_vars

\* C7: on a table whose rows are all resident, replaying rowOps, columnOps
\* and the overlay over the rows of the file in the three phases of save
\* gives exactly the headers and cells the grid shows.
SaveReplaysDisplay ==
  (resident /\ activePath # Null /\ delimiterApplied # Null) =>
    SaveReplay(activePath[1], delimiterApplied[1]) = Displayed

\* C8: at most one window fetch is outstanding in every reachable state.
AtMostOneFetch == Len(fetches) <= 1

\* C9: the answer to a window fetch issued for a session since closed or
\* replaced is discarded: it changes none of rows, windowStart, eof and
\* windowSize and sets no error.
StaleResponseDiscarded ==
  [][(/\ last' = "windowLoaded"
      /\ \E i \in 1..Len(fetches) :
           fetches[i].gen # gen /\ fetches' = RemoveAt(fetches, i))
     => UNCHANGED <<rows, windowStart, eof, windowSize, error>>]_vars

\* C10: the overlay, rowOps, columnOps and the undo and redo stacks are reset
\* together whenever a session is closed, opened or re-opened with another
\* delimiter: once the handlers are back, whatever any of the five holds was
\* written under the current session generation.
EditsBelongToSession ==
  (/\ openProc.pc = "idle" /\ applyProc.pc = "idle"
   /\ \/ patches # EmptyMap \/ Len(rowOps) > 0 \/ Len(columnOps) > 0
      \/ Len(undoStack) > 0 \/ Len(redoStack) > 0)
  => stamp = gen

SetTombstonesBaseValue ==
  \A row \in EditRows \cup {0}, col \in EditCols, value \in EditValues :
    (fileMode = "csv" /\ row >= windowStart /\ row < windowStart + Len(rows))
      => LET after == applyPatchResult(row, col, value).patches
             key == KeyOf(row, col)
         IN IF value = Cell(rows, row - windowStart, col)
            THEN key \notin DOMAIN after
            ELSE key \in DOMAIN after /\ after[key] = value

\* C13: a cell write that changes the effective value of a resident cell
\* pushes exactly one PatchOp onto the undo stack and empties the redo
\* stack; a write that is refused or that leaves the effective value as it
\* is pushes nothing and leaves both stacks alone.
SetPushesOneOp ==
  \A row \in EditRows \cup {0}, col \in EditCols, value \in EditValues :
    LET result == applyPatchResult(row, col, value)
        isResident == row >= windowStart /\ row < windowStart + Len(rows)
    IN IF isResident /\ value # getCellValue(row, col)
       THEN /\ Len(result.undoStack) = Len(undoStack) + 1
            /\ SubSeq(result.undoStack, 1, Len(undoStack)) = undoStack
            /\ result.undoStack[Len(result.undoStack)].key = KeyOf(row, col)
            /\ result.redoStack = <<>>
       ELSE /\ result.undoStack = undoStack
            /\ result.redoStack = redoStack

\* a write has just emptied a redo stack that held an undone write
SetPushesOneOpReached ==
  /\ last = "set" /\ branched /\ redoStack = <<>> /\ Len(undoStack) > 0

\* C14: with the window unchanged, after any mix of cell writes, undo and
\* redo every overlay entry of a resident row holds a value different from
\* the window's base value of its cell.
OverlayDiffersFromBase ==
  \A key \in DOMAIN patches :
    LET row == KeyRow(key)
    IN (row >= windowStart /\ row < windowStart + Len(rows))
         => patches[key] # Cell(rows, row - windowStart, KeyCol(key))

\* C15: get(row, col) is the overlay's value when the overlay has an entry
\* for the cell, also when the row is not resident; otherwise the window's
\* cell when the row is resident; otherwise the empty string.
GetPrefersOverlay ==
  \A row \in 0..4, col \in 0..2 :
    getCellValue(row, col) =
      IF KeyOf(row, col) \in DOMAIN patches THEN patches[KeyOf(row, col)]
      ELSE IF row >= windowStart /\ row < windowStart + Len(rows)
           THEN (IF col < Len(rows[row - windowStart + 1])
                 THEN rows[row - windowStart + 1][col + 1]
                 ELSE "")
           ELSE ""

\* the overlay holds an entry of a row the resident window does not cover
GetPrefersOverlayReached ==
  /\ Len(rows) > 0
  /\ \E key \in DOMAIN patches :
       KeyRow(key) < windowStart \/ KeyRow(key) >= windowStart + Len(rows)

\* C16: a completed window fetch replaces rows, windowStart and eof with
\* those of the response, nothing of the previous window kept, and leaves
\* the overlay, the undo and redo stacks and both op logs unchanged.
WindowReplacedWholesale ==
  [][last' = "windowLoaded" =>
       /\ \E i \in 1..Len(fetches) :
            LET req == fetches[i]
                slice == ReadWindow(req.path, req.delim, req.start, req.limit)
            IN /\ fetches' = RemoveAt(fetches, i)
               /\ rows' = slice.rows
               /\ windowStart' = slice.start
               /\ eof' = slice.eof
       /\ UNCHANGED <<patches, undoStack, redoStack, rowOps, columnOps>>
    ]_vars

\* a fetch has replaced an earlier window while the overlay, the undo stack
\* and the row op log held entries
WindowReplacedWholesaleReached ==
  /\ last = "windowLoaded" /\ windowStart > 0 /\ Len(rows) > 0
  /\ patches # EmptyMap /\ Len(undoStack) > 0 /\ Len(rowOps) > 0

\* C17: a logical row resident both before and after a window refetch shows
\* the same value in every column before and after it, also when rows were
\* inserted or deleted earlier in the session.
LogicalRowStable ==
  [][last' = "windowLoaded" =>
       \A r \in 0..4, c \in 0..1 :
         (/\ r >= windowStart /\ r < windowStart + Len(rows)
          /\ r >= windowStart' /\ r < windowStart' + Len(rows'))
           => GetCellValueIn(patches', rows', windowStart', r, c) =
                getCellValue(r, c)
    ]_vars

\* C18: when a window fetch fails the error is set, rows, windowStart, eof
\* and windowSize keep their values, the overlay, both stacks and both op
\* logs are unchanged, the loading flag ends at the value it had before the
\* request was made, and no new request is issued.
FailedFetchLeavesWindow ==
  [][last' = "windowFailed" =>
       \E i \in 1..Len(fetches) :
         /\ fetches' = RemoveAt(fetches, i)
         /\ error' # Null
         /\ UNCHANGED <<rows, windowStart, eof, windowSize>>
         /\ UNCHANGED <<patches, undoStack, redoStack, rowOps, columnOps>>
         /\ windowLoading' = fetches[i].loading
    ]_vars

\* C19: with no fetch pending and no sort or filter rule, a scroll event
\* that meets the forward condition issues a fetch that starts at
\* clamp(last - floor(0.7 * windowSize), 0, maxStart), one that meets the
\* backward condition issues a fetch that starts at
\* clamp(first - floor(0.3 * windowSize), 0, maxStart), every such start
\* lies in 0..maxStart, and for 10000 rows, windowSize 400, windowStart 0
\* and last visible index 395 the start is above 0 and at most 9600.
ScrollIssuesOneFetch ==
  \A v \in ScrollViews :
    LET first == v[1]
        last_ == v[2]
        maxStart == Max(totalRowCount - windowSize, 0)
        forward == last_ >= windowStart + Len(rows) - 20
                     /\ windowStart < maxStart
        backward == first <= windowStart + 20 /\ windowStart > 0
        start == onChangeStart(first, last_)
    IN (/\ fileMode = "csv" /\ Len(fetches) = 0 /\ ~hasSortFilter
        /\ last_ < totalRowCount)
         => /\ forward =>
                 start = Some(clamp(last_ - (7 * windowSize) \div 10,
                                    0, maxStart))
            /\ (backward /\ ~forward) =>
                 start = Some(clamp(first - (3 * windowSize) \div 10,
                                    0, maxStart))
            /\ start # Null => start[1] \in 0..maxStart
            /\ (/\ totalRowCount = 10000 /\ windowSize = 400
                /\ windowStart = 0 /\ last_ = 395)
                 => start # Null /\ start[1] > 0 /\ start[1] <= 9600

\* C20 as stated: after every fetch that returns rows windowSize equals
\* clamp(floor(0.6 * memoryBudget / max(average bytes per row, 128)), 200,
\* 20000), so windowSize stays within 200..20000; the new size is the limit
\* of later requests only and never changes the resident window.
WindowSizeAfterEveryFetch ==
  [][LET BudgetRows(n, total) ==
           \* floor(0.6 * memoryBudget / max(total / n, 128))
           IF total <= 128 * n
           THEN ScaledDiv(MemoryBudgetMiB * 6, 10 * 128, 20).q
           ELSE ScaledDiv(MemoryBudgetMiB * 6 * n, 10 * total, 20).q
     IN
     /\ windowSize' \in 200..20000
     /\ last' = "windowLoaded" =>
          /\ Len(rows') > 0 =>
               windowSize' = clamp(BudgetRows(Len(rows'), TotalBytes(rows')),
                                   200, 20000)
          /\ \E i \in 1..Len(fetches) :
               /\ fetches' = RemoveAt(fetches, i)
               /\ rows' = ReadWindow(fetches[i].path, fetches[i].delim,
                                     fetches[i].start, fetches[i].limit).rows
     /\ last' = "scrollFetch" =>
          /\ fetches'[Len(fetches')].limit = windowSize
          /\ UNCHANGED <<rows, windowStart, eof, windowSize>>
    ]_vars

\* C20: after every fetch that returns rows with a non-empty cell
\* windowSize equals clamp(floor(0.6 * memoryBudget / max(average bytes per
\* row, 128)), 200, 20000), after any other fetch it keeps its value;
\* windowSize stays within 200..20000; the rows a fetch makes resident are
\* those read with the limit its request carried, and a scroll request
\* carries the size of the moment it is made and leaves the resident
\* window alone.
WindowSizeAdapts ==
  [][LET BudgetRows(n, total) ==
           \* floor(0.6 * memoryBudget / max(total / n, 128))
           IF total <= 128 * n
           THEN ScaledDiv(MemoryBudgetMiB * 6, 10 * 128, 20).q
           ELSE ScaledDiv(MemoryBudgetMiB * 6 * n, 10 * total, 20).q
     IN
     /\ windowSize' \in 200..20000
     /\ last' = "windowLoaded" =>
          /\ windowSize' =
               IF Len(rows') > 0 /\ TotalBytes(rows') > 0
               THEN clamp(BudgetRows(Len(rows'), TotalBytes(rows')),
                          200, 20000)
               ELSE windowSize
          /\ \E i \in 1..Len(fetches) :
               /\ fetches' = RemoveAt(fetches, i)
               /\ rows' = ReadWindow(fetches[i].path, fetches[i].delim,
                                     fetches[i].start, fetches[i].limit).rows
     /\ last' = "scrollFetch" =>
          /\ fetches'[Len(fetches')].limit = windowSize
          /\ UNCHANGED <<rows, windowStart, eof, windowSize>>
    ]_vars

\* a fetch has left a size strictly inside the clamp, and the resident rows
\* are those of a request made with the size before it
WindowSizeAdaptsReached ==
  /\ last = "windowLoaded" /\ Len(rows) > 0
  /\ windowSize > 200 /\ windowSize < 20000 /\ windowSize # 400

\* C21: a row or column operation whose index is out of range (a column
\* index outside 0..columnCount-1 for delete and rename or outside
\* 0..columnCount for insert, a row index at or past the row count for
\* delete or past it for insert) is rejected with a validation message
\* before anything is changed: every rejection sets the error and leaves
\* headers, rows, the overlay, both logs, both stacks and the selection
\* alone, and every operation that is carried out has its index in range.
\* The row count is the larger of the loaded rows and the counted total.
OutOfRangeRejected ==
  [][/\ last' \in {"insertRowRejected", "deleteRowRejected",
                   "insertColumnRejected", "deleteColumnRejected",
                   "renameColumnRejected"} =>
          /\ error' # Null
          /\ UNCHANGED <<headers, rows, patches, rowOps, columnOps,
                         undoStack, redoStack, selVars>>
     /\ last' = "insertRow" =>
          rowOps'[Len(rowOps')].index <= Max(Len(rows), totalRowCount)
     /\ last' = "deleteRow" =>
          rowOps'[Len(rowOps')].index < Max(Len(rows), totalRowCount)
     /\ last' = "insertColumn" =>
          columnOps'[Len(columnOps')].index <= columnCount
     /\ last' \in {"deleteColumn", "renameColumn"} =>
          columnOps'[Len(columnOps')].index < columnCount
    ]_vars

\* C22: the two operation logs are append-only in the order applied: every
\* row insert or delete that is carried out appends exactly one entry of its
\* type and index to rowOps and leaves columnOps alone, every column insert,
\* delete or rename appends exactly one entry to columnOps and leaves rowOps
\* alone, and no other step changes either log except a reset, which
\* empties both together.
LogsAppendOnly ==
  [][/\ \/ UNCHANGED <<rowOps, columnOps>>
        \/ last' \in {"insertRow", "deleteRow", "insertColumn",
                      "deleteColumn", "renameColumn"}
        \/ /\ last' \in {"clearEdits", "sessionOpened", "delimiterApplied",
                         "textChosen"}
           /\ rowOps' = <<>>
           /\ columnOps' = <<>>
     /\ last' \in {"insertRow", "deleteRow"} =>
          /\ Len(rowOps') = Len(rowOps) + 1
          /\ SubSeq(rowOps', 1, Len(rowOps)) = rowOps
          /\ rowOps'[Len(rowOps')].type =
               (IF last' = "insertRow" THEN "insert" ELSE "delete")
          /\ UNCHANGED columnOps
     /\ last' \in {"insertColumn", "deleteColumn", "renameColumn"} =>
          /\ Len(columnOps') = Len(columnOps) + 1
          /\ SubSeq(columnOps', 1, Len(columnOps)) = columnOps
          /\ columnOps'[Len(columnOps')].type =
               (CASE last' = "insertColumn" -> "insert"
                  [] last' = "deleteColumn" -> "delete"
                  [] OTHER -> "rename")
          /\ UNCHANGED rowOps
    ]_vars

\* two rows of the file are gone and the log holds the second delete only:
\* the logs were emptied by a reset after the first and appended to again
LogsAppendOnlyReached ==
  /\ last = "deleteRow"
  /\ totalRows = Some(3)
  /\ Len(rows) = 1
  /\ rowOps = <<[type |-> "delete", index |-> 0, values |-> <<>>]>>
  /\ columnOps = <<>>

\* C23: structural operations are never undoable: no row or column insert,
\* delete or rename pushes onto the undo or the redo stack, and after every
\* row or column insert or delete both stacks are empty.
StructuralOpsNotUndoable ==
  [][/\ (\/ Len(rowOps') > Len(rowOps)
         \/ \E i \in (Len(columnOps) + 1)..Len(columnOps') :
              columnOps'[i].type \in {"insert", "delete"}) =>
          (undoStack' = <<>> /\ redoStack' = <<>>)
     /\ last' = "renameColumn" => UNCHANGED <<undoStack, redoStack>>
    ]_vars

\* C24: a column insert at index i followed by a column delete at the same
\* index, with nothing in between but edits of cells of column i, restores
\* headers and the overlay as they were before the insert: every entry that
\* is not in the inserted column has its key and value back, and the edits
\* made to column i in between are gone.  snap holds headers, overlay and
\* index of a column insert for as long as only column i has been edited
\* since.
ColumnInsertDeleteRestores ==
  [][(/\ last' = "deleteColumn"
      /\ snap # Null
      /\ columnOps'[Len(columnOps')].index = snap[1].index) =>
       (headers' = snap[1].headers /\ patches' = snap[1].patches)
    ]_vars

\* a column was inserted left of an edited cell, the new column was edited,
\* and the delete at the same index has dropped that edit and moved the
\* earlier one back
ColumnInsertDeleteRestoresReached ==
  /\ last = "deleteColumn"
  /\ Len(columnOps) = 2 /\ rowOps = <<>>
  /\ columnOps[1].type = "insert"
  /\ columnOps[2].index = columnOps[1].index
  /\ patches # EmptyMap
  /\ Cardinality(DOMAIN prior) > Cardinality(DOMAIN patches)
  /\ \E k \in DOMAIN patches : KeyCol(k) >= columnOps[1].index

\* C25: a mouse down with neither shift nor ctrl at a point inside the row
\* and column counts replaces the whole list with one range and sets the
\* anchor to the point, whatever list and anchor were there: the range
\* starts and ends at the point, widened in row mode to all columns and in
\* col mode to all rows.
PlainClickReplaces ==
  \A row \in 0..(rowCount - 1), col \in 0..(colCount - 1), mode \in Modes :
    LET point == [row |-> row, col |-> col]
        result == updateSelectionResult(point, mode, FALSE, FALSE)
    IN /\ result.ranges =
            << [startRow |-> IF mode = "col" THEN 0 ELSE row,
                endRow |-> IF mode = "col" THEN rowCount - 1 ELSE row,
                startCol |-> IF mode = "row" THEN 0 ELSE col,
                endCol |-> IF mode = "row" THEN colCount - 1 ELSE col] >>
       /\ result.anchor = Some(point)
       /\ result.mode = mode

\* a plain click on cell (2,1) has left that one range and that anchor
PlainClickReplacesReached ==
  /\ last = "click"
  /\ selectionMode = "cell"
  /\ selectionRanges =
       << [startRow |-> 2, endRow |-> 2, startCol |-> 1, endCol |-> 1] >>
  /\ selectionAnchor = Some([row |-> 2, col |-> 1])

\* C26: a mouse down with ctrl and without shift appends one range that
\* starts and ends at the point to the end of the list, leaves every
\* earlier range as it was and in its place, and sets the anchor to the
\* point.
CtrlClickAppends ==
  \A row \in 0..(rowCount - 1), col \in 0..(colCount - 1), mode \in Modes :
    LET point == [row |-> row, col |-> col]
        result == updateSelectionResult(point, mode, FALSE, TRUE)
    IN /\ result.ranges =
            Append(selectionRanges,
              [startRow |-> IF mode = "col" THEN 0 ELSE row,
               endRow |-> IF mode = "col" THEN rowCount - 1 ELSE row,
               startCol |-> IF mode = "row" THEN 0 ELSE col,
               endCol |-> IF mode = "row" THEN colCount - 1 ELSE col])
       /\ result.anchor = Some(point)

\* a ctrl click on cell (2,1) has added its range behind the range of cell
\* (0,0) and moved the anchor
CtrlClickAppendsReached ==
  /\ last = "ctrlClick"
  /\ selectionRanges =
       << [startRow |-> 0, endRow |-> 0, startCol |-> 0, endCol |-> 0],
          [startRow |-> 2, endRow |-> 2, startCol |-> 1, endCol |-> 1] >>
  /\ selectionAnchor = Some([row |-> 2, col |-> 1])

\* C27: whenever shift is held, with or without ctrl, a mouse down on a
\* selection that has an anchor and a range replaces only the last range,
\* by the normalized range that spans the stored anchor and the point: the
\* anchor stays, every earlier range stays, the list does not grow.
ShiftReplacesLast ==
  \A row \in 0..(rowCount - 1), col \in 0..(colCount - 1),
     ctrl \in BOOLEAN :
    LET point == [row |-> row, col |-> col]
        result == updateSelectionResult(point, "cell", TRUE, ctrl)
        n == Len(selectionRanges)
    IN (selectionAnchor # Null /\ n > 0) =>
         /\ result.anchor = selectionAnchor
         /\ Len(result.ranges) = n
         /\ SubSeq(result.ranges, 1, n - 1) = SubSeq(selectionRanges, 1, n - 1)
         /\ result.ranges[n] =
              [startRow |-> Min(clamp(selectionAnchor[1].row, 0, rowCount - 1),
                                row),
               endRow |-> Max(clamp(selectionAnchor[1].row, 0, rowCount - 1),
                              row),
               startCol |-> Min(clamp(selectionAnchor[1].col, 0, colCount - 1),
                                col),
               endCol |-> Max(clamp(selectionAnchor[1].col, 0, colCount - 1),
                              col)]

\* C28: every range built in row mode spans the columns 0..colCount-1 and
\* every range built in col mode the rows 0..rowCount-1, whatever the
\* coordinates of anchor and point on the other axis, inside the counts or
\* past them.
ModesSpanOtherAxis ==
  LET points == {[row |-> 0, col |-> 0], [row |-> 1, col |-> 2],
                 [row |-> 3, col |-> 3]}
  IN \A anchor \in points, focus \in points :
       LET inRow == buildRange(anchor, focus, "row")
           inCol == buildRange(anchor, focus, "col")
       IN (rowCount > 0 /\ colCount > 0) =>
            /\ inRow # Null /\ inCol # Null
            /\ inRow[1].startCol = 0 /\ inRow[1].endCol = colCount - 1
            /\ inRow[1].startRow = Min(clamp(anchor.row, 0, rowCount - 1),
                                       clamp(focus.row, 0, rowCount - 1))
            /\ inRow[1].endRow = Max(clamp(anchor.row, 0, rowCount - 1),
                                     clamp(focus.row, 0, rowCount - 1))
            /\ inCol[1].startRow = 0 /\ inCol[1].endRow = rowCount - 1
            /\ inCol[1].startCol = Min(clamp(anchor.col, 0, colCount - 1),
                                       clamp(focus.col, 0, colCount - 1))
            /\ inCol[1].endCol = Max(clamp(anchor.col, 0, colCount - 1),
                                     clamp(focus.col, 0, colCount - 1))

\* a mouse down on the header of row 2 has selected the row over all three
\* columns, one more than the file has headers
ModesSpanOtherAxisReached ==
  /\ last \in ClickNames
  /\ selectionMode = "row"
  /\ Len(headers) = 2
  /\ Len(selectionRanges) > 0
  /\ selectionRanges[Len(selectionRanges)] =
       [startRow |-> 2, endRow |-> 2, startCol |-> 0, endCol |-> 2]

\* C29: in every reachable state every range of the selection is normalized
\* and lies within the current counts, 0 <= startRow <= endRow <= rowCount-1
\* and 0 <= startCol <= endCol <= colCount-1, also after a row or column
\* delete and after a window replacement that lowers the row count; with a
\* row or column count of zero the selection holds no range.
SelectionWithinCounts ==
  \A i \in 1..Len(selectionRanges) :
    /\ 0 <= selectionRanges[i].startRow
    /\ selectionRanges[i].startRow <= selectionRanges[i].endRow
    /\ selectionRanges[i].endRow <= rowCount - 1
    /\ 0 <= selectionRanges[i].startCol
    /\ selectionRanges[i].startCol <= selectionRanges[i].endCol
    /\ selectionRanges[i].endCol <= colCount - 1

\* C30: a plain click on any cell the grid shows of a loaded row, logical
\* row r with windowStart <= r < windowStart + Len(rows) and a column c of
\* the grid, leaves a range that contains (r, c), wherever the window
\* starts.
ClickSelectsClickedCell ==
  \A r \in windowStart..(windowStart + Len(rows) - 1), c \in GridCols :
    LET result == updateSelectionResult([row |-> r, col |-> c], "cell",
                                        FALSE, FALSE)
        n == Len(result.ranges)
    IN (fileMode = "csv" /\ r < totalRowCount) =>
         /\ n > 0
         /\ result.ranges[n].startRow <= r /\ r <= result.ranges[n].endRow
         /\ result.ranges[n].startCol <= c /\ c <= result.ranges[n].endCol

\* C31: with no sort or filter rule a virtual index i is logical row i; with
\* a rule active index i is the i-th entry of the visible list, and no row
\* when i is at or beyond the length of that list.
VirtualIndexMapsThroughView ==
  \A i \in 0..Len(rows) :
    IF Len(sortRules) = 0 /\ Len(filterRules) = 0
    THEN getRowIndex(i) = Some(i)
    ELSE IF i < Len(visibleRowIndices)
    THEN getRowIndex(i) = Some(visibleRowIndices[i + 1])
    ELSE getRowIndex(i) = Null

\* rules that hide the last row and put the second row in front of the first
VirtualIndexMapsThroughViewReached ==
  /\ Len(sortRules) > 0 /\ Len(filterRules) > 0
  /\ Len(rows) = 3
  /\ getRowIndex(0) = Some(1)
  /\ getRowIndex(1) = Some(0)
  /\ getRowIndex(2) = Null

\* C32: with rules active the visible list holds exactly the resident rows
\* that satisfy every filter rule, each once, ordered by the sort rules in
\* priority order, a tie on one rule broken by the rules after it and at
\* last by the original row order.
VisibleIsStableSortOfFiltered ==
  LET v == visibleRowIndices
      Passes(r) ==
        \A k \in 1..Len(filterRules) :
          \/ ParseInt(filterRules[k].column) = Null
          \/ Includes(getCellValue(r, ParseInt(filterRules[k].column)[1]),
                      filterRules[k].value)
      Order(k, a, b) ==
        IF ParseInt(sortRules[k].column) = Null THEN 0
        ELSE LET c == ParseInt(sortRules[k].column)[1]
                 o == localeCompare(getCellValue(a, c), getCellValue(b, c))
             IN IF sortRules[k].direction = "asc" THEN o ELSE 0 - o
      Precedes(a, b) ==
        \/ \E k \in 1..Len(sortRules) :
             /\ Order(k, a, b) < 0
             /\ \A j \in 1..(k - 1) : Order(j, a, b) = 0
        \/ /\ \A k \in 1..Len(sortRules) : Order(k, a, b) = 0
           /\ a < b
  IN (Len(sortRules) > 0 \/ Len(filterRules) > 0) =>
       /\ \A k \in 1..Len(v) : isRowLoaded(v[k]) /\ Passes(v[k])
       /\ \A r \in windowStart..(windowStart + Len(rows) - 1) :
            Passes(r) => Cardinality({k \in 1..Len(v) : v[k] = r}) = 1
       /\ \A i \in 1..Len(v), j \in 1..Len(v) :
            i < j => Precedes(v[i], v[j])

\* two rows that tie on the first rule, put in reverse row order by the
\* second, with a third row filtered out
VisibleIsStableSortOfFilteredReached ==
  /\ Len(sortRules) = 2 /\ Len(filterRules) > 0
  /\ ParseInt(sortRules[1].column) # Null
  /\ visibleRowIndices = <<1, 0>>
  /\ localeCompare(getCellValue(1, ParseInt(sortRules[1].column)[1]),
                   getCellValue(0, ParseInt(sortRules[1].column)[1])) = 0

\* C33: while a sort or filter rule is active no scroll event issues a
\* window fetch, whatever the scroll position; once the rules are removed
\* the scroll events fetch again.
NoScrollFetchUnderRules ==
  [][(Len(fetches') > Len(fetches)
        /\ fetches'[Len(fetches')].owner = "scroll")
       => (Len(sortRules) = 0 /\ Len(filterRules) = 0)]_vars

\* a rule is active while the viewport is at the end of the resident window
\* of a longer file, where a scroll event without rules fetches
NoScrollFetchUnderRulesReached ==
  /\ Len(sortRules) + Len(filterRules) > 0
  /\ fileMode = "csv" /\ ~windowLoading /\ fetches = <<>>
  /\ totalRows = Some(10000) /\ Len(rows) = 400 /\ windowStart = 0

\* C34: the values a row insert logs are the new row in the layout of the
\* file: as many values as the file has columns, and the column operations
\* of the log, applied forward to them (an insert puts a blank at its index,
\* a delete removes its index), give the row the grid shows.
RowInsertValuesPristine ==
  [][LET n == Len(rowOps')
         RECURSIVE Forward(_, _)
         Forward(values, k) ==
           IF k > Len(columnOps) THEN values
           ELSE IF columnOps[k].type = "insert"
           THEN Forward(InsertAt(values, columnOps[k].index, ""), k + 1)
           ELSE IF columnOps[k].type = "delete"
           THEN Forward(WithoutIndex(values, columnOps[k].index), k + 1)
           ELSE Forward(values, k + 1)
     IN (/\ n = Len(rowOps) + 1
         /\ rowOps'[n].type = "insert"
         /\ activePath # Null /\ delimiterApplied # Null)
        => /\ Len(rowOps'[n].values)
                = Len(FileHeaders(activePath[1], delimiterApplied[1]))
           /\ rowOps'[n].index <= Len(rows)
                => Forward(rowOps'[n].values, 1) = rows'[rowOps'[n].index + 1]
    ]_vars

\* C40: after clearEdits the overlay, both logs and both stacks are empty,
\* and the headers and every cell of the resident window read as the file
\* has them: no row or column inserted, deleted or renamed in the session
\* is visible any more.
ClearEditsRestoresPristine ==
  (last = "clearEdits" /\ activePath # Null /\ delimiterApplied # Null) =>
    /\ patches = EmptyMap
    /\ rowOps = <<>> /\ columnOps = <<>>
    /\ undoStack = <<>> /\ redoStack = <<>>
    /\ headers = FileHeaders(activePath[1], delimiterApplied[1])
    /\ \A row \in windowStart..(windowStart + Len(rows) - 1) :
         \A col \in 0..(columnCount - 1) :
           getCellValue(row, col)
             = Cell(FileRows(activePath[1], delimiterApplied[1]), row, col)

\* C39: an accepted column rename changes only the header at the given
\* index and appends one rename entry to columnOps; the other headers, the
\* rows, the overlay, rowOps, both stacks and the selection stay.
RenameChangesOneHeader ==
  [][(/\ Len(columnOps') = Len(columnOps) + 1
      /\ columnOps'[Len(columnOps')].type = "rename")
     => LET op == columnOps'[Len(columnOps')]
        IN /\ columnOps' = Append(columnOps, op)
           /\ Len(headers') = Len(headers)
           /\ \A i \in 1..Len(headers) :
                headers'[i] = IF i - 1 = op.index THEN op.name ELSE headers[i]
           /\ UNCHANGED <<rows, patches, rowOps, undoStack, redoStack,
                          selectionRanges, selectionAnchor, selectionMode>>
    ]_vars

\* a rename with a cell edit on the undo stack and a cell selected
RenameChangesOneHeaderReached ==
  /\ last = "renameColumn"
  /\ headers = <<"h0", "n">>
  /\ Len(undoStack) > 0 /\ patches # EmptyMap
  /\ Len(selectionRanges) > 0

\* C35: when a scroll fetch is answered with as many rows as it asked for,
\* the index that set it off, the last visible index of a forward fetch and
\* the first visible index of a backward fetch, is in the new window.
ScrollFetchCoversTrigger ==
  [][\A i \in 1..Len(fetches) :
       (/\ fetches[i].owner = "scroll"
        /\ last' = "windowLoaded"
        /\ fetches' = RemoveAt(fetches, i)
        /\ windowStart' = fetches[i].start
        /\ Len(rows') = fetches[i].limit)
       => LET view == fetches[i].view[1]
              trigger == IF view.forward THEN view.last ELSE view.first
          IN /\ windowStart' <= trigger
             /\ trigger < windowStart' + Len(rows')
    ]_vars

\* a forward fetch for the viewport 370..395 of file L has been answered
\* with rows 115..514
ScrollFetchCoversTriggerReached ==
  /\ last = "windowLoaded"
  /\ windowStart = 115 /\ Len(rows) = 400 /\ totalRows = Some(10000)

\* C36: with the viewport where it was, the scroll events after a scroll
\* fetch that was answered with a full window issue no further fetch.
StationaryViewportQuiesces ==
  [][\A i \in 1..Len(fetches) :
       (/\ fetches[i].owner = "scroll"
        /\ last' = "windowLoaded"
        /\ fetches' = RemoveAt(fetches, i)
        /\ windowStart' = fetches[i].start
        /\ Len(rows') = fetches[i].limit
        /\ fetches[i].view[1].last < totalRowCount')
       => \A view \in {fetches[i].view[1]} :
            onChangeStart(view.first, view.last)' = Null
    ]_vars

\* C37: after a paste of a block at a start cell every cell of the block
\* reads back the pasted value, also the cells past the last column the
\* table had before the paste.
PasteReadsBack ==
  \A cells \in Clipboards :
    (/\ fileMode # "text" /\ ~loading
     /\ getActiveRange # Null
     /\ getActiveRange[1].startRow < Len(rows))
    => LET range == getActiveRange[1]
           result == pasteCells(PasteStart, range, cells, 0)
       IN \A j \in 0..(Len(cells) - 1) :
            GetCellValueIn(result.patches, result.rows, windowStart,
                           range.startRow, range.startCol + j)
              = cells[j + 1]

\* C38: a paste appends as many column inserts to columnOps as the block
\* has columns past the last column of the table, each missing column
\* once, and no row insert when the block ends within the rows.
PasteGrowsByNeed ==
  \A cells \in Clipboards :
    (/\ fileMode # "text" /\ ~loading
     /\ getActiveRange # Null
     /\ getActiveRange[1].startRow < Len(rows))
    => LET range == getActiveRange[1]
           result == pasteCells(PasteStart, range, cells, 0)
       IN /\ Len(result.columnOps) - Len(columnOps)
               = Max(0, range.startCol + Len(cells) - Len(headers))
          /\ \A k \in (Len(columnOps) + 1)..Len(result.columnOps) :
               /\ result.columnOps[k].type = "insert"
               /\ result.columnOps[k].index = Len(headers) + k - Len(columnOps) - 1

====
